---- MODULE Spec2Model ----
(***************************************************************************)
(* Model of the real-time messaging layer of the Sola AGI desktop client   *)
(* (frontend_desktop/App.tsx): command router, consent gate, streaming     *)
(* response assembler, fallback timer and HTTP fallback.                   *)
(*                                                                         *)
(* Texts are TLA+ strings; TLC evaluates Len, SubSeq and \o on them, so    *)
(* trim / toLowerCase / startsWith / includes / split are computed the way *)
(* the JavaScript computes them.  An optional value (undefined / null) is  *)
(* the empty tuple, a present value x is <<x>>.                            *)
(***************************************************************************)
EXTENDS Integers, Sequences, FiniteSets, TLC

(***************************************************************************)
(* Bounds of the model.                                                    *)
(***************************************************************************)
\* length of a conversation: the user sends while two more Messages fit (two chat
\* turns on the socket and one event between them fit after the greeting)
MaxLen == 6
\* non-terminal speak_response_chunk events the backend emits for one turn
MaxChunks == 2
\* conversations in the side bar: the two of the start and one the user opens
MaxChats == 3
\* proactive messages the backend pushes in one run: a first one and a later one
MaxPushes == 2
\* Messages of a conversation in a run with new sessions and pushes: the greeting and
\* two chat turns, or a turn and two pushes
MaxSessionLen == 5
\* the scheduled tasks held at once, and the last instant at which one is added
MaxTasks == 2
MaxTaskClock == 4
\* the Messages of a conversation in the run with the scheduler view, and its pushes
MaxTaskChatLen == 3
MaxTaskPushes == 1
\* the Messages of a conversation in the run in which conversations are switched, and
\* the last instant at which a session is opened
MaxSwitchChatLen == 3
MaxSwitchClock == 4
\* the requests transmitted in that run, and the operations of the side bar
MaxSwitchSends == 2
MaxSwitches == 2
\* the scripts sent to the relational ghost in a run
MaxGhostTurns == 2

None == << >>
Some(x) == << x >>
IsSome(o) == o # << >>
The(o) == o[1]

(***************************************************************************)
(* String helpers (JavaScript String methods).  Whitespace is the blank.   *)
(***************************************************************************)
UpperChars == "ABCDEFGHIJKLMNOPQRSTUVWXYZ"
LowerChars == "abcdefghijklmnopqrstuvwxyz"

CharAt(s, i) == SubSeq(s, i, i)

\* the characters of a text, as a tuple
Chars(s) == [i \in 1..Len(s) |-> CharAt(s, i)]

LowerChar(c) ==
  IF \E i \in 1..Len(UpperChars) : CharAt(UpperChars, i) = c
  THEN CharAt(LowerChars, CHOOSE i \in 1..Len(UpperChars) : CharAt(UpperChars, i) = c)
  ELSE c

\* s.toLowerCase(), as the tuple of its characters
ToLowerCase(s) == [i \in 1..Len(s) |-> LowerChar(CharAt(s, i))]

\* t === text, t.startsWith(p), t.includes(p) for a text t given as its characters
Is(lower, text) == lower = Chars(text)
IsOneOf(lower, texts) == \E text \in texts : Is(lower, text)
StartsWith(lower, p) == Len(lower) >= Len(p) /\ SubSeq(lower, 1, Len(p)) = Chars(p)
Includes(lower, p) ==
  \E i \in 1..(Len(lower) - Len(p) + 1) : SubSeq(lower, i, i + Len(p) - 1) = Chars(p)

NonBlanks(s) == {i \in 1..Len(s) : CharAt(s, i) # " "}
Least(S) == CHOOSE i \in S : \A j \in S : i <= j
Greatest(S) == CHOOSE i \in S : \A j \in S : j <= i

\* s.trim()
Trim(s) ==
  IF NonBlanks(s) = {} THEN ""
  ELSE SubSeq(s, Least(NonBlanks(s)), Greatest(NonBlanks(s)))

\* s.substring(n): the text from the 0-based index n on
Substring(s, n) == SubSeq(s, n + 1, Len(s))

\* s.substring(0, n)
Prefix(s, n) == SubSeq(s, 1, IF n < Len(s) THEN n ELSE Len(s))

\* input.split(/\s+/) of a trimmed text: the maximal blank-free runs, in order
WordStarts(s) == {i \in NonBlanks(s) : i = 1 \/ CharAt(s, i - 1) = " "}
WordEnds(s) == {i \in NonBlanks(s) : i = Len(s) \/ CharAt(s, i + 1) = " "}
Nth(S, k) == CHOOSE i \in S : Cardinality({j \in S : j < i}) = k - 1
Split(s) ==
  [k \in 1..Cardinality(WordStarts(s)) |->
     SubSeq(s, Nth(WordStarts(s), k), Nth(WordEnds(s), k))]

\* parts[i] || ''  (i is the 0-based index)
Part(parts, i) == IF i + 1 <= Len(parts) THEN parts[i + 1] ELSE ""

\* parts.slice(i).join(' ')
RECURSIVE JoinFrom(_, _)
JoinFrom(parts, i) ==
  IF i + 1 > Len(parts) THEN ""
  ELSE IF i + 1 = Len(parts) THEN parts[i + 1]
  ELSE parts[i + 1] \o " " \o JoinFrom(parts, i + 1)

(***************************************************************************)
(* parseChatCommand.  The result carries the three optional fields of      *)
(* ChatCommandResult and, in "ui", the panel / voice / theme setter the    *)
(* branch calls.  The multi-line help and status texts are abbreviated to  *)
(* their variable names in angle brackets.                                 *)
(***************************************************************************)
NoUi == None
SetUi(f, v) == Some([f |-> f, v |-> v])

PassThrough ==
  [kind |-> "pass_through", commandToSend |-> None, systemActionToSend |-> None,
   localAssistantMessage |-> None, ui |-> NoUi]

Local(msg, u) ==
  [kind |-> "handled", commandToSend |-> None, systemActionToSend |-> None,
   localAssistantMessage |-> Some(msg), ui |-> u]

Command(cmd, u) ==
  [kind |-> "handled", commandToSend |-> Some(cmd), systemActionToSend |-> None,
   localAssistantMessage |-> None, ui |-> u]

SystemAction(a, msg) ==
  [kind |-> "handled", commandToSend |-> None, systemActionToSend |-> Some(a),
   localAssistantMessage |-> Some(msg), ui |-> NoUi]

\* the `system browser <sub> ...` branch
systemBrowserCommand(input, parts, sub) ==
      CASE Is(sub, "status") -> Command("system browser status", NoUi)
        [] Is(sub, "navigate") ->
             LET url == Trim(JoinFrom(parts, 3))
             IN  IF url = "" THEN Local("Usage: system browser navigate <url>", NoUi)
                 ELSE Command("system browser navigate " \o url, NoUi)
        [] Is(sub, "login") ->
             LET url == Part(parts, 3)  user == Part(parts, 4)  pass == Part(parts, 5)
             IN  IF url = "" \/ user = "" \/ pass = ""
                 THEN Local("Usage: system browser login <url> <username> <password>", NoUi)
                 ELSE Command("system browser login " \o url \o " " \o user \o " " \o pass, NoUi)
        [] Is(sub, "scrape") ->
             LET url == Part(parts, 3)  selector == Trim(JoinFrom(parts, 4))
             IN  IF url = "" \/ selector = ""
                 THEN Local("Usage: system browser scrape <url> <selector>", NoUi)
                 ELSE Command("system browser scrape " \o url \o " " \o selector, NoUi)
        [] Is(sub, "screenshot") ->
             LET selector == Trim(JoinFrom(parts, 3))
             IN  IF selector = "" THEN Command("system browser screenshot", NoUi)
                 ELSE Command("system browser screenshot " \o selector, NoUi)
        [] Is(sub, "click") ->
             LET selector == Trim(JoinFrom(parts, 3))
             IN  IF selector = "" THEN Local("Usage: system browser click <selector>", NoUi)
                 ELSE Command("system browser click " \o selector, NoUi)
        [] Is(sub, "type") ->
             LET selector == Part(parts, 3)  text == Trim(JoinFrom(parts, 4))
             IN  IF selector = "" \/ text = ""
                 THEN Local("Usage: system browser type <selector> <text>", NoUi)
                 ELSE Command("system browser type " \o selector \o " " \o text, NoUi)
        [] Is(sub, "scroll") ->
             LET dx == Part(parts, 3)  dy == Part(parts, 4)
             IN  IF dx = "" \/ dy = ""
                 THEN Local("Usage: system browser scroll <dx> <dy>", NoUi)
                 ELSE Command("system browser scroll " \o dx \o " " \o dy, NoUi)
        [] Is(sub, "keypress") ->
             LET key == Trim(JoinFrom(parts, 3))
             IN  IF key = "" THEN Local("Usage: system browser keypress <key>", NoUi)
                 ELSE Command("system browser keypress " \o key, NoUi)
        [] Is(sub, "wait") ->
             LET selector == Part(parts, 3)  timeout == Part(parts, 4)
             IN  IF selector = ""
                 THEN Local("Usage: system browser wait <selector> [timeout_ms]", NoUi)
                 ELSE IF timeout # ""
                      THEN Command("system browser wait " \o selector \o " " \o timeout, NoUi)
                      ELSE Command("system browser wait " \o selector, NoUi)
        [] OTHER -> Command(input, NoUi)

\* const parts = input.split(/\s+/); const sub = (parts[2] || '').toLowerCase();
parseSystemBrowser(input) ==
  systemBrowserCommand(input, Split(input), ToLowerCase(Part(Split(input), 2)))

\* the branches of parseChatCommand over input = raw.trim() and lower = input.toLowerCase()
chatCommand(input, lower) ==
      CASE Is(lower, "show browser") -> Local("Browser panel shown.", SetUi("showBrowserPanel", TRUE))
        [] Is(lower, "hide browser") -> Local("Browser panel hidden.", SetUi("showBrowserPanel", FALSE))
        [] IsOneOf(lower, {"help", "?", "commands"}) -> Local("<helpMessage>", NoUi)
        [] Is(lower, "help voice") -> Local("<helpVoice>", NoUi)
        [] Is(lower, "help browser") -> Local("<helpBrowser>", NoUi)
        [] Is(lower, "help dreams") -> Local("<helpDreams>", NoUi)
        [] Is(lower, "help memory") -> Local("<helpMemory>", NoUi)
        [] Is(lower, "help ecosystem") -> Local("<helpEcosystem>", NoUi)
        [] Is(lower, "help agents") -> Local("<helpAgents>", NoUi)
        [] Is(lower, "help proactive") -> Local("<helpProactive>", NoUi)
        [] IsOneOf(lower, {"notify test", "test notification"}) ->
             Local("Test notification sent! Check your system tray.", NoUi)
        [] IsOneOf(lower, {"proactive on", "proactive enable"}) -> Local("<proactiveOnNote>", NoUi)
        [] IsOneOf(lower, {"proactive off", "proactive disable"}) -> Local("<proactiveOffNote>", NoUi)
        [] Is(lower, "proactive status") -> Command("proactive status", NoUi)
        [] StartsWith(lower, "proactive interval ") ->
             LET interval == Trim(Substring(input, 19))
             IN  Local("To set proactive interval to " \o interval
                       \o " seconds, add PROACTIVE_INTERVAL_SECS=" \o interval
                       \o " to .env and restart backend.", NoUi)
        [] IsOneOf(lower, {"show dreams", "dreams", "list dreams"}) ->
             Command("brain dreams list", SetUi("showDreamsPanel", TRUE))
        [] Is(lower, "hide dreams") -> Local("Dreams panel hidden.", SetUi("showDreamsPanel", FALSE))
        [] IsOneOf(lower, {"lucid", "lucid dream"}) ->
             Command("brain dreams lucid", SetUi("showDreamsPanel", TRUE))
        [] IsOneOf(lower, {"dream with me", "dream with dad", "shared dream"}) ->
             Command("brain dreams shared", SetUi("showDreamsPanel", TRUE))
        [] StartsWith(lower, "heal ") ->
             Command("brain dreams heal " \o Trim(Substring(input, 5)),
                     SetUi("showDreamsPanel", TRUE))
        [] StartsWith(lower, "replay dream ") ->
             Command("brain dreams replay " \o Trim(Substring(input, 13)), NoUi)
        [] IsOneOf(lower, {"voice on", "enable voice", "voice enable"}) ->
             Local("Voice output enabled. I will speak my responses.",
                   SetUi("voiceOutputEnabled", TRUE))
        [] IsOneOf(lower, {"voice off", "disable voice", "voice disable"}) ->
             Local("Voice output disabled.", SetUi("voiceOutputEnabled", FALSE))
        [] IsOneOf(lower, {"listen", "start listening"}) -> Local("Listening... Speak now.", NoUi)
        [] StartsWith(lower, "speak ") ->
             Local("Speaking: \"" \o Trim(Substring(input, 6)) \o "\"", NoUi)
        [] IsOneOf(lower, {"theme dark", "dark theme", "dark mode"}) ->
             Local("Theme set to dark.", SetUi("themeLight", FALSE))
        [] IsOneOf(lower, {"theme light", "light theme", "light mode"}) ->
             Local("Theme set to light.", SetUi("themeLight", TRUE))
        [] IsOneOf(lower, {"reset voice", "voice reset"}) ->
             Local("Voice settings reset to defaults.", SetUi("voiceOutputEnabled", FALSE))
        [] IsOneOf(lower, {"status all", "status", "show status"}) -> Local("<statusMsg>", NoUi)
        [] IsOneOf(lower, {"system grant", "grant"}) ->
             SystemAction("grant", "WebSocket consent granted for this connection.")
        [] IsOneOf(lower, {"system revoke", "revoke"}) ->
             SystemAction("revoke", "WebSocket consent revoked for this connection.")
        [] Is(lower, "use chrome for browsing") ->
             Command("system browser use chrome port=9222", NoUi)
        [] Is(lower, "use firefox for browsing") ->
             Command("system browser use firefox port=9222", NoUi)
        [] StartsWith(lower, "system browser ") -> parseSystemBrowser(input)
        [] OTHER -> PassThrough

parseChatCommand(raw) == chatCommand(Trim(raw), ToLowerCase(Trim(raw)))

(***************************************************************************)
(* State.                                                                  *)
(***************************************************************************)
VARIABLES
  activeChatId,               \* useState<string | null>('h1')
  allMessages,                \* Record<chat id, Message[]>
  chatHistory,                \* ChatHistoryItem[] (id, title)
  isTyping,                   \* the busy flag
  ui,                         \* panel, voice and theme toggles
  wsConnected,                \* WebSocketService.isConnected()
  wsConsentGranted,           \* wsConsentGrantedRef.current
  pendingWsCommand,           \* pendingWsCommandRef.current
  streamingMessageId,         \* streamingMessageIdRef.current
  streamingHasReceivedChunk,  \* streamingHasReceivedChunkRef.current
  streamingFallbackTimer,     \* streamingFallbackTimerRef.current and its callback
  now,                        \* Date.now(), as logical time
  wsOut,                      \* messages transmitted over the socket, in order
  httpOut,                    \* HTTP requests issued, in order
  httpPending,                \* handleHttpMessage calls awaiting their response
  epm,                        \* exchanges handed to memoryService.storeCortex('EPM', ...)
  handlers,                   \* the state the registered socket handlers closed over
  notifications,              \* previews handed to notifyProactiveMessage, in order
  spoken,                     \* texts handed to voiceService.speak by the push handler
  scheduledTasks,             \* useState<ScheduledTask[]> (id, title, priority, status)
  envConfig,                  \* the working copy of the env config
  customLogo,                 \* string | null
  customFavicon,              \* string | null
  customChatLogo,             \* string | null
  customUserLogo,             \* string | null
  snapshotEnvConfig,          \* EnvConfig | null
  snapshotBranding,           \* { logo, favicon, chatLogo, userLogo } | null
  isSettingsOpen,             \* the settings dialog is shown
  localStorage,               \* the settings keys of window.localStorage
  modeAtom,                   \* 'Professional' | 'Personal' | 'Counselor'
  draft,                      \* RelationalGhost: the script being written
  intensity,                  \* RelationalGhost: the slider, 0..100
  loading,                    \* RelationalGhost: a simulation request is in flight
  ghostError,                 \* RelationalGhost: error, string | null
  ghostChat,                  \* RelationalGhost: chat, ChatItem[] (role)
  ghostRequest,               \* what the sendToGhost call in flight closed over
  brake,                      \* useRegulatoryBrake(): blocked, and the seconds of each startBrake
  backend,                    \* what the orchestrator owes this connection
  observed                    \* history of the run, read by the properties only

\* the state of the client
clientVars ==
  << activeChatId, allMessages, chatHistory, isTyping, ui, wsConnected, wsConsentGranted,
     pendingWsCommand, streamingMessageId, streamingHasReceivedChunk,
     streamingFallbackTimer, now, wsOut, httpOut, httpPending, epm >>

vars ==
  << activeChatId, allMessages, chatHistory, isTyping, ui, wsConnected, wsConsentGranted,
     pendingWsCommand, streamingMessageId, streamingHasReceivedChunk,
     streamingFallbackTimer, now, wsOut, httpOut, httpPending, epm,
     handlers, notifications, spoken, scheduledTasks, envConfig, customLogo,
     customFavicon, customChatLogo, customUserLogo, snapshotEnvConfig, snapshotBranding,
     isSettingsOpen, localStorage, modeAtom, draft, intensity, loading, ghostError, ghostChat,
     ghostRequest, brake, backend, observed >>

\* the conversation and its transport, without the clock
chatVars ==
  << activeChatId, allMessages, chatHistory, isTyping, ui, wsConnected, wsConsentGranted,
     pendingWsCommand, streamingMessageId, streamingHasReceivedChunk,
     streamingFallbackTimer, wsOut, httpOut, httpPending, epm >>

\* the refs and state the socket handlers and the timer share
streamVars == << streamingMessageId, streamingHasReceivedChunk >>
consentVars == << wsConsentGranted, pendingWsCommand >>

\* what only the proactive inbox and the registration of the handlers write
pushVars == << handlers, notifications, spoken >>

\* the settings dialog: working values, snapshots and what is persisted
brandingVars == << customLogo, customFavicon, customChatLogo, customUserLogo >>
settingsVars ==
  << envConfig, brandingVars, snapshotEnvConfig, snapshotBranding, isSettingsOpen,
     localStorage >>

\* the relational ghost of the counselor dashboard
ghostVars == << draft, intensity, loading, ghostError, ghostChat, ghostRequest, brake >>

\* the state of the views beside the conversation
deskVars == << scheduledTasks, settingsVars, modeAtom, ghostVars >>

(***************************************************************************)
(* Date.now(): the clock is logical.  A handler that mints an id reads it  *)
(* at an instant of its own, two ticks after the last reading, so that the *)
(* ids t and t + 1 of one handler are not those of another.                *)
(***************************************************************************)
Reading == now + 2

(***************************************************************************)
(* Messages and conversations.                                             *)
(***************************************************************************)
Msg(id, role, content, streaming) ==
  [id |-> id, role |-> role, content |-> content, isStreaming |-> streaming]

\* prev[chat] || []
Msgs(all, chat) == IF chat \in DOMAIN all THEN all[chat] ELSE << >>

\* { ...prev, [chat]: list }
SetMsgs(all, chat, list) ==
  [c \in (DOMAIN all) \cup {chat} |-> IF c = chat THEN list ELSE all[c]]

\* the chunk put in front of the content instead of after it
StreamedContentPrepended(content, chunk) == chunk \o content

\* the chunk put in the place of the content
StreamedContentReplaced(content, chunk) == chunk

\* (m.content || '') + chunk
StreamedContent(content, chunk) == content \o chunk

\* list.map(m => m.id === id ? {...m, content: m.content + tail, isStreaming} : m)
\* (keep = TRUE), or with content: tail (keep = FALSE)
MapTarget(list, id, keep, tail, streaming) ==
  [i \in 1..Len(list) |->
     IF list[i].id = id
     THEN [list[i] EXCEPT !.content = IF keep THEN StreamedContent(list[i].content, tail)
                                               ELSE tail,
                          !.isStreaming = streaming]
     ELSE list[i]]

\* list.some(m => m.id === id)
HasTarget(list, id) == \E i \in 1..Len(list) : list[i].id = id

\* list.filter(m => m.id !== id)
FilterOut(list, id) ==
  LET Keep(m) == m.id # id
  IN  SelectSeq(list, Keep)

\* messageContent.length > 25 ? messageContent.substring(0, 22) + '...' : messageContent
TitlePreview(messageContent) ==
  IF Len(messageContent) > 25 THEN Prefix(messageContent, 22) \o "..." ELSE messageContent

\* chatHistory.map(h => h.id === chat && h.title === 'New Session' ? {...h, title} : h)
UpdateTitle(history, chat, messageContent) ==
  [i \in 1..Len(history) |->
     IF history[i].id = chat /\ history[i].title = "New Session"
     THEN [history[i] EXCEPT !.title = TitlePreview(messageContent)]
     ELSE history[i]]

ApplyUi(u, set) == IF IsSome(set) THEN [u EXCEPT ![The(set).f] = The(set).v] ELSE u

(***************************************************************************)
(* The episodic memory store: a socket handler that completes an exchange  *)
(* hands "User: <last user message>\n<name>: <assistant text>" to          *)
(* memoryService.storeCortex.  The handler reads the conversation from     *)
(* allMessagesRef, which the effect of the component copies from the state *)
(* after each render: a render is committed between two events, so the ref *)
(* holds the conversation as it was when the handler started, without the  *)
(* update the handler itself has just queued with setAllMessages.          *)
(***************************************************************************)
\* envConfig.PHOENIX_CUSTOM_NAME
PHOENIX_CUSTOM_NAME == "Sola"

\* allMessagesRef.current, as a handler reads it
AllMessagesRef == allMessages

\* memoryServiceRef.current && memoryServiceRef.current.isConnected()
MemoryConnected == wsConnected

\* currentMessages.filter(m => m.role === 'user').slice(-1)[0]
LastUserMessage(list) ==
  LET users == {i \in 1..Len(list) : list[i].role = "user"}
  IN  IF users = {} THEN None ELSE Some(list[Greatest(users)])

\* list.find(m => m.id === id)?.content || ''
ContentOf(list, id) ==
  IF HasTarget(list, id)
  THEN list[Least({i \in 1..Len(list) : list[i].id = id})].content
  ELSE ""

\* `User: ${lastUserMessage.content}\n${envConfig.PHOENIX_CUSTOM_NAME}: ${assistantText}`
ExchangeText(user, assistantText) ==
  "User: " \o user \o "\n" \o PHOENIX_CUSTOM_NAME \o ": " \o assistantText

\* if (memoryService connected) { if (lastUserMessage) storeCortex('EPM', key, exchangeText) }
StoreCortex(store, chat, assistantText) ==
  IF MemoryConnected /\ IsSome(LastUserMessage(Msgs(AllMessagesRef, chat)))
  THEN Append(store, ExchangeText(The(LastUserMessage(Msgs(AllMessagesRef, chat))).content,
                                  assistantText))
  ELSE store

(***************************************************************************)
(* The orchestrator's side of one connection (wire protocol): the speak    *)
(* turn it is answering, the commands it has not answered, the system      *)
(* actions it has not answered.  A turn records the placeholder created    *)
(* for it and the chunk texts delivered for it so far.                     *)
(***************************************************************************)
NoBackend == [turn |-> None, commands |-> 0, system |-> << >>]

\* heard: chunk events handled since the last placeholder was created; hydrated: the
\* placeholder a whole response filled before any chunk; hadConsent: a connection
\* closed while consent was granted; online: the socket was connected at the last
\* send; settled: the origin of the last HTTP call that got its response; spared: the
\* target id that was pending when a timer armed for another id last fired; pushes:
\* the proactive messages handled so far; reason: the reason tag of the last of them;
\* failure: the detail of the failure when the last HTTP call to settle failed;
\* granted: the last system_response of this connection that carried a boolean
\* carried true; switches: the operations of the side bar so far; opened: the env config
\* and the branding as they were when the settings were last opened; toggled: the mode
\* the last toggle found and the mode it left
NothingObserved ==
  [heard |-> 0, hydrated |-> None, hadConsent |-> FALSE, online |-> FALSE, settled |-> None,
   spared |-> None, pushes |-> 0, reason |-> None, failure |-> None, granted |-> FALSE,
   switches |-> 0, opened |-> None, toggled |-> None]

NewTurn(target, chat) ==
  [target |-> target, chat |-> chat, sent |-> "", chunks |-> 0, tokens |-> 0,
   phase |-> "open",
   into |-> None, whole |-> None, wholeChunks |-> 0, wholePending |-> FALSE,
   erred |-> FALSE, overtaken |-> FALSE]

\* the connection is gone: the orchestrator answers nothing it was sent on it
Dropped(b) ==
  [turn |-> IF IsSome(b.turn) /\ The(b.turn).phase = "open"
            THEN Some([The(b.turn) EXCEPT !.phase = "dropped"])
            ELSE b.turn,
   commands |-> 0, system |-> << >>]

(***************************************************************************)
(* Transport (websocketService): send hands the message to the socket and  *)
(* reports whether it did.                                                 *)
(***************************************************************************)
SpeakPayload(text)   == [type |-> "speak", text |-> text]
CommandPayload(text) == [type |-> "command", text |-> text]
SystemPayload(a)     == [type |-> "system", text |-> a]

\* the socket log after send(payload) returned `sent`
Transmit(out, payload, sent) == IF sent THEN Append(out, payload) ELSE out

\* the orchestrator after it was handed `payload`
Receive(b, payload, target, chat) ==
  CASE payload.type = "speak"   -> [b EXCEPT !.turn = Some(NewTurn(target, chat))]
    [] payload.type = "command" -> [b EXCEPT !.commands = @ + 1]
    [] payload.type = "system"  -> [b EXCEPT !.system = Append(@, payload.text)]

(***************************************************************************)
(* ws.onConnection((connected) => ...)                                     *)
(***************************************************************************)
\* a connectivity handler that forgets to drop consent and the pending command
OnConnectionKeepingConsent(connected) ==
  /\ wsConnected' = connected
  /\ UNCHANGED << epm, activeChatId, allMessages, chatHistory, isTyping, ui, consentVars,
                  streamVars, streamingFallbackTimer, now, wsOut, httpOut, httpPending >>

\* a connectivity handler that also gives up the stream in flight when the socket closes
OnConnectionForgettingStream(connected) ==
  /\ wsConnected' = connected
  /\ IF ~connected
     THEN /\ wsConsentGranted' = FALSE
          /\ pendingWsCommand' = None
          /\ streamingMessageId' = None
     ELSE UNCHANGED << consentVars, streamingMessageId >>
  /\ UNCHANGED << epm, activeChatId, allMessages, chatHistory, isTyping, ui,
                  streamingHasReceivedChunk, streamingFallbackTimer, now, wsOut, httpOut,
                  httpPending >>

OnConnection(connected) ==
  /\ wsConnected' = connected
  /\ IF ~connected
     THEN /\ wsConsentGranted' = FALSE
          /\ pendingWsCommand' = None
     ELSE UNCHANGED consentVars
  /\ UNCHANGED << epm, activeChatId, allMessages, chatHistory, isTyping, ui, streamVars,
                  streamingFallbackTimer, now, wsOut, httpOut, httpPending >>

(***************************************************************************)
(* ws.on('system_response', ...): consent_granted is an option, absent     *)
(* when the field is not a boolean.                                        *)
(***************************************************************************)
\* a handler that takes any system_response for a grant
OnSystemResponseTrusting(consent_granted) ==
  /\ wsConsentGranted' = TRUE
  /\ UNCHANGED << epm, activeChatId, allMessages, chatHistory, isTyping, ui, wsConnected,
                  pendingWsCommand, streamVars, streamingFallbackTimer, now, wsOut, httpOut,
                  httpPending >>

OnSystemResponse(consent_granted) ==
  LET release == IsSome(consent_granted) /\ The(consent_granted) /\ IsSome(pendingWsCommand)
  IN  /\ wsConsentGranted' =
           IF IsSome(consent_granted) THEN The(consent_granted) ELSE wsConsentGranted
      /\ pendingWsCommand' = IF release THEN None ELSE pendingWsCommand
      /\ wsOut' = IF release
                  THEN Transmit(wsOut, CommandPayload(The(pendingWsCommand)), TRUE)
                  ELSE wsOut
      /\ UNCHANGED << epm, activeChatId, allMessages, chatHistory, isTyping, ui, wsConnected,
                      streamVars, streamingFallbackTimer, now, httpOut, httpPending >>

(***************************************************************************)
(* ws.on('speak_response', ...)                                            *)
(***************************************************************************)
\* every whole response ignored while a placeholder is pending
IgnoreAnyWholeResponse(pendingId, hasChunks) == IsSome(pendingId)

\* if (pendingId && hasChunks) return;
IgnoreWholeResponse(pendingId, hasChunks) == IsSome(pendingId) /\ hasChunks

OnSpeakResponse(message) ==
  IF IsSome(activeChatId) /\ message # ""
  THEN LET chat      == The(activeChatId)
           pendingId == streamingMessageId
           hasChunks == streamingHasReceivedChunk
       IN  IF IgnoreWholeResponse(pendingId, hasChunks)
           THEN UNCHANGED clientVars
           ELSE /\ IF IsSome(pendingId)
                   THEN /\ allMessages' =
                             SetMsgs(allMessages, chat,
                                     MapTarget(Msgs(allMessages, chat), The(pendingId),
                                               FALSE, message, FALSE))
                        /\ streamingMessageId' = None
                        /\ streamingHasReceivedChunk' = FALSE
                        /\ UNCHANGED now
                   ELSE /\ allMessages' =
                             SetMsgs(allMessages, chat,
                                     Append(Msgs(allMessages, chat),
                                            Msg(ToString(Reading + 1), "assistant", message, FALSE)))
                        /\ now' = Reading
                        /\ UNCHANGED streamVars
                /\ epm' = StoreCortex(epm, chat, message)
                /\ isTyping' = FALSE
                /\ UNCHANGED << activeChatId, chatHistory, ui, wsConnected, consentVars,
                                streamingFallbackTimer, wsOut, httpOut, httpPending >>
  ELSE UNCHANGED clientVars

(***************************************************************************)
(* ws.on('speak_response_chunk', ...): error is an option.                 *)
(***************************************************************************)
\* the error text shown without its "Error: " label
ErrorDisplayBare(error) == error

\* `Error: ${response.error}`
ErrorDisplay(error) == "Error: " \o error

\* pendingId || `assistant-${Date.now()}`
ChunkTargetId ==
  IF IsSome(streamingMessageId) THEN The(streamingMessageId)
  ELSE "assistant-" \o ToString(Reading)

OnSpeakResponseChunk(chunk, done, error) ==
  IF ~IsSome(activeChatId) THEN UNCHANGED clientVars
  ELSE
    LET chat     == The(activeChatId)
        targetId == ChunkTargetId
        existing == Msgs(allMessages, chat)
    IN  IF IsSome(error) /\ The(error) # ""
        THEN /\ allMessages' =
                  SetMsgs(allMessages, chat,
                          IF HasTarget(existing, targetId)
                          THEN MapTarget(existing, targetId, FALSE,
                                         ErrorDisplay(The(error)), FALSE)
                          ELSE Append(existing,
                                      Msg(targetId, "assistant", ErrorDisplay(The(error)), FALSE)))
             /\ isTyping' = FALSE
             /\ streamingMessageId' = None
             /\ streamingHasReceivedChunk' = FALSE
             /\ now' = IF IsSome(streamingMessageId) THEN now ELSE Reading
             /\ UNCHANGED << epm, activeChatId, chatHistory, ui, wsConnected, consentVars,
                             streamingFallbackTimer, wsOut, httpOut, httpPending >>
        ELSE /\ allMessages' =
                  SetMsgs(allMessages, chat,
                          IF HasTarget(existing, targetId)
                          THEN MapTarget(existing, targetId, TRUE, chunk, ~done)
                          ELSE Append(existing, Msg(targetId, "assistant", chunk, ~done)))
             /\ IF done
                THEN /\ isTyping' = FALSE
                     /\ streamingMessageId' = None
                     /\ streamingHasReceivedChunk' = FALSE
                ELSE /\ UNCHANGED isTyping
                     /\ streamingMessageId' = Some(targetId)
                     /\ streamingHasReceivedChunk' = (streamingHasReceivedChunk \/ chunk # "")
             /\ epm' = IF done
                       THEN StoreCortex(epm, chat, ContentOf(Msgs(AllMessagesRef, chat), targetId))
                       ELSE epm
             /\ now' = IF IsSome(streamingMessageId) THEN now ELSE Reading
             /\ UNCHANGED << activeChatId, chatHistory, ui, wsConnected, consentVars,
                             streamingFallbackTimer, wsOut, httpOut, httpPending >>

(***************************************************************************)
(* ws.on('command_response', ...) and ws.on('error', ...)                  *)
(***************************************************************************)
OnCommandResponse(result) ==
  IF IsSome(activeChatId) /\ result # ""
  THEN /\ allMessages' =
            SetMsgs(allMessages, The(activeChatId),
                    Append(Msgs(allMessages, The(activeChatId)),
                           Msg(ToString(Reading + 1), "assistant", result, FALSE)))
       /\ isTyping' = FALSE
       /\ now' = Reading
       /\ UNCHANGED << epm, activeChatId, chatHistory, ui, wsConnected, consentVars, streamVars,
                       streamingFallbackTimer, wsOut, httpOut, httpPending >>
  ELSE UNCHANGED clientVars

OnError(message) ==
  IF IsSome(activeChatId)
  THEN /\ allMessages' =
            SetMsgs(allMessages, The(activeChatId),
                    Append(Msgs(allMessages, The(activeChatId)),
                           Msg(ToString(Reading + 1), "assistant",
                               "Error: " \o (IF message # "" THEN message ELSE "Unknown error"),
                               FALSE)))
       /\ isTyping' = FALSE
       /\ now' = Reading
       /\ UNCHANGED << epm, activeChatId, chatHistory, ui, wsConnected, consentVars, streamVars,
                       streamingFallbackTimer, wsOut, httpOut, httpPending >>
  ELSE UNCHANGED clientVars

(***************************************************************************)
(* The fallback timer armed by handleSendMessage: window.setTimeout(() =>  *)
(* ..., 10_000).  The callback keeps the pendingId and the activeChatId of *)
(* the send that armed it.                                                 *)
(***************************************************************************)
ArmedTimer(pendingId, chat) == Some([pendingId |-> pendingId, chat |-> chat, armed |-> TRUE])

TimerArmed == IsSome(streamingFallbackTimer) /\ The(streamingFallbackTimer).armed

\* the test on hasChunks inverted
TimeoutRemovesWithChunks(stillPending, hasChunks) == stillPending /\ hasChunks

\* the callback without its test on the pending id
TimeoutRemovesWhateverIsPending(stillPending, hasChunks) == ~hasChunks

\* if (stillPending && !hasChunks)
TimeoutRemoves(stillPending, hasChunks) == stillPending /\ ~hasChunks

FallbackTimeout ==
  LET t            == The(streamingFallbackTimer)
      stillPending == streamingMessageId = Some(t.pendingId)
      hasChunks    == streamingHasReceivedChunk
  IN  /\ streamingFallbackTimer' = Some([t EXCEPT !.armed = FALSE])
      /\ IF TimeoutRemoves(stillPending, hasChunks)
         THEN /\ allMessages' =
                   SetMsgs(allMessages, t.chat, FilterOut(Msgs(allMessages, t.chat), t.pendingId))
              /\ streamingMessageId' = None
         ELSE UNCHANGED << allMessages, streamingMessageId >>
      /\ UNCHANGED << epm, activeChatId, chatHistory, isTyping, ui, wsConnected, consentVars,
                      streamingHasReceivedChunk, now, wsOut, httpOut, httpPending >>

(***************************************************************************)
(* useEffect(() => { ...register the socket handlers...; return cleanup }, *)
(* [activeChatId]): the handlers close over the state of the render that   *)
(* registered them, and are registered again only when the active          *)
(* conversation changes.  The cleanup clears the fallback timer and closes *)
(* the socket (the connectivity handler hears of it); the setup opens a    *)
(* new socket, which connects later.                                       *)
(***************************************************************************)
\* what the handlers registered by a run of the effect close over, beside activeChatId
Registered(u) == [voiceOutputEnabled |-> u.voiceOutputEnabled]

\* the effect, had its cleanup left the fallback timer armed
SocketEffectKeepingTimer ==
  /\ UNCHANGED streamingFallbackTimer
  /\ wsConnected' = FALSE
  /\ wsConsentGranted' = FALSE
  /\ pendingWsCommand' = None
  /\ handlers' = Registered(ui)

SocketEffect ==
  /\ streamingFallbackTimer' = None
  /\ wsConnected' = FALSE
  /\ wsConsentGranted' = FALSE
  /\ pendingWsCommand' = None
  /\ handlers' = Registered(ui)

(***************************************************************************)
(* startNewOrchestration                                                   *)
(***************************************************************************)
StartNewOrchestration ==
  LET t              == Reading
      newChatId      == "chat-" \o ToString(t)
      initialMessage ==
        Msg(ToString(t), "assistant",
            "Lead Orchestration Planner initialized for [General Chats]. Context: Sovereign OS. Mapped for User. State: Ready.",
            FALSE)
  IN  /\ now' = t
      /\ allMessages' = SetMsgs(allMessages, newChatId, << initialMessage >>)
      /\ chatHistory' = << [id |-> newChatId, title |-> "New Session"] >> \o chatHistory
      /\ activeChatId' = Some(newChatId)
      /\ SocketEffect
      /\ UNCHANGED << isTyping, ui, streamVars, wsOut, httpOut, httpPending, epm,
                      notifications, spoken >>

(***************************************************************************)
(* ws.on('proactive_message', ...)                                         *)
(***************************************************************************)
\* the conversation with nothing but the pushed Message
WithProactiveMessageOnly(list, proactiveMessage) == << proactiveMessage >>

\* [...(prev[currentChatId] || []), proactiveMessage]
WithProactiveMessage(list, proactiveMessage) == Append(list, proactiveMessage)

\* response.reason === 'comfort' || !activeChatId
Notifies(reason, chat) == reason = "comfort" \/ ~IsSome(chat)

\* content.length > 100 ? content.substring(0, 100) + '...' : content
NotificationPreview(content) ==
  IF Len(content) > 100 THEN Prefix(content, 100) \o "..." ELSE content

\* voiceOutputEnabled && voiceServiceRef.current, as the handler closed over it
SpeaksPush(registered) == registered.voiceOutputEnabled

OnProactiveMessage(content, reason) ==
  LET t                == Reading
      currentChatId    == IF IsSome(activeChatId) THEN The(activeChatId)
                          ELSE "chat-" \o ToString(t)
      proactiveMessage == Msg(ToString(t + 1), "assistant", content, FALSE)
  IN  /\ now' = t
      /\ IF ~IsSome(activeChatId)
         THEN /\ activeChatId' = Some(currentChatId)
              /\ chatHistory' =
                   << [id |-> currentChatId, title |-> "Proactive Check-in"] >> \o chatHistory
              /\ SocketEffect
         ELSE UNCHANGED << activeChatId, chatHistory, streamingFallbackTimer, wsConnected,
                           consentVars, handlers >>
      /\ allMessages' =
           SetMsgs(allMessages, currentChatId,
                   WithProactiveMessage(Msgs(allMessages, currentChatId), proactiveMessage))
      /\ notifications' = IF Notifies(reason, activeChatId)
                          THEN Append(notifications, NotificationPreview(content))
                          ELSE notifications
      /\ spoken' = IF SpeaksPush(handlers) THEN Append(spoken, content) ELSE spoken
      /\ UNCHANGED << isTyping, ui, streamVars, wsOut, httpOut, httpPending, epm >>

(***************************************************************************)
(* What the user types, and the payloads of the events.                    *)
(***************************************************************************)
\* what the user types: free-form chat, a privileged command typed verbatim, the consent
\* actions (grant and revoke), a phrase rewritten to a backend command, a phrase
\* rewritten to a fast-path command, a fast-path command in another case and with
\* blanks around it, and an incomplete browser command
Inputs ==
  {"Hello", "system browser status", "system grant", "system revoke", "show dreams",
   "use chrome for browsing", "  EXEC ls ", "system browser navigate"}

\* what the user types in a run with new sessions and proactive pushes: free-form chat,
\* a chat message that reads like the title of a new session, and the voice toggle
SessionInputs == {"Hello", "New Session", "voice on"}

\* what the user types in a run that exercises the router: the control verbs as the
\* first word and after another word, a slash command, a fast-path command, free-form
\* chat with and without a word that begins like a control verb, and the local toggles
RouterInputs ==
  {"run tests", "please run tests", "schedule a scan", "please execute it", "/deploy",
   "execute ls", "Hello", "my runway is short", "show browser", "voice off", "theme dark",
   "help"}

\* pairs of inputs that differ in the case of their letters only: a panel toggle,
\* free-form chat, a fast-path command, chat with a control verb, a consent action and
\* a phrase rewritten to a backend command
CasePairs ==
  {<< "show browser", "Show BROWSER" >>, << "hello", "HELLO" >>, << "exec ls", "EXEC ls" >>,
   << "please run tests", "Please RUN Tests" >>, << "system grant", "SYSTEM Grant" >>,
   << "show dreams", "Show Dreams" >>}
CaseInputs == {pair[1] : pair \in CasePairs} \cup {pair[2] : pair \in CasePairs}

AllInputs == Inputs \cup SessionInputs \cup RouterInputs \cup CaseInputs

\* what a proactive push carries
PushTexts == {"Thinking of you."}
PushReasons == {"comfort", "curiosity"}

\* the tokens of a streamed answer, in order; a chunk event carries the next token or
\* the empty text
Tokens == << "Hi ", "there!" >>
ChunkTexts == {""} \cup {Tokens[i] : i \in 1..Len(Tokens)}
WholeTexts == {"Hi there!"}
ErrorTexts == {"overloaded"}
ResultTexts == {"ok"}
FailureTexts == {"Failed to fetch"}

(***************************************************************************)
(* handleSendMessage: classification.                                      *)
(***************************************************************************)
\* the prefix table without `exec `
FastPathPrefixesWithoutExec ==
  {"system ", "code ", "execute ", "skills ", "google ", "ecosystem "}

FastPathPrefixes ==
  {"system ", "code ", "exec ", "execute ", "skills ", "google ", "ecosystem "}

\* the message sent as it was typed, whatever the router made of it
MessageToSendAsTyped(commandOverride, inputValue) == inputValue

\* commandOverride ?? inputValue
MessageToSend(commandOverride, inputValue) ==
  IF IsSome(commandOverride) THEN The(commandOverride) ELSE inputValue

\* !!commandOverride
HasOverride(commandOverride) == IsSome(commandOverride) /\ The(commandOverride) # ""

\* the message compared as it was typed
MessageAsTyped(messageToSend) == Chars(Trim(messageToSend))

\* messageLower = messageToSend.trim().toLowerCase()
MessageLower(messageToSend) == ToLowerCase(Trim(messageToSend))

\* the fast path without its `system ` prefix
IsFastPathCommandWithoutSystem(messageLower) ==
  \E p \in FastPathPrefixes \ {"system "} : StartsWith(messageLower, p)

IsFastPathCommand(messageLower) == \E p \in FastPathPrefixes : StartsWith(messageLower, p)

IsCommand(commandOverride, messageToSend, messageLower) ==
  \/ HasOverride(commandOverride)
  \/ IsFastPathCommand(messageLower)
  \/ StartsWith(Chars(messageToSend), "/")
  \/ Includes(messageLower, " run")
  \/ Includes(messageLower, " execute")
  \/ Includes(messageLower, " schedule")

\* a router for which no input is a pure UI command
IsPureUiCommandNever(parsed) == FALSE

\* parsed.kind === 'handled' && !commandOverride
IsPureUiCommand(parsed) == parsed.kind = "handled" /\ ~HasOverride(parsed.commandToSend)

\* isCommand && messageContent.trim().toLowerCase().startsWith('system ')
NeedsConsent(isCommand, messageLower) == isCommand /\ StartsWith(messageLower, "system ")

\* the constants handleSendMessage derives from the input and its parse
Classification(inputValue, parsed, messageToSend, messageLower) ==
  [parsed         |-> parsed,
   messageContent |-> messageToSend,
   isFastPath     |-> IsFastPathCommand(messageLower),
   isCommand      |-> IsCommand(parsed.commandToSend, messageToSend, messageLower),
   pureUi         |-> IsPureUiCommand(parsed),
   needsConsent   |-> NeedsConsent(IsCommand(parsed.commandToSend, messageToSend, messageLower),
                                   messageLower),
   blank          |-> Trim(inputValue) = ""]

ClassifyParsed(inputValue, parsed) ==
  Classification(inputValue, parsed,
                 MessageToSend(parsed.commandToSend, inputValue),
                 MessageLower(MessageToSend(parsed.commandToSend, inputValue)))

Classify(inputValue) == ClassifyParsed(inputValue, parseChatCommand(inputValue))

\* the classification of every text the user types, computed once
Classified == [inputValue \in AllInputs |-> Classify(inputValue)]

(***************************************************************************)
(* handleHttpMessage: the request is issued by the send; its response is   *)
(* a later step (HttpSettle).  `at` and `why` record the send it belongs   *)
(* to.                                                                     *)
(***************************************************************************)
HttpRequest(content, isCommand) ==
  [endpoint |-> IF isCommand THEN "command" ELSE "speak", text |-> content]

HttpCall(content, isCommand, chat, at, why) ==
  [content |-> content, isCommand |-> isCommand, chat |-> chat, at |-> at, why |-> why]

RemoveAt(seq, i) == SubSeq(seq, 1, i - 1) \o SubSeq(seq, i + 1, Len(seq))

\* a failure rendered without its detail
BackendErrorDisplayBare(detail) == "Backend Error"

\* `Backend Error: ${error.message}`
BackendErrorDisplay(detail) == "Backend Error: " \o detail

\* the response of call i arrives: ok with the result text, or a failure with its detail
HttpSettle(i, ok, text) ==
  LET r == httpPending[i]
      assistantMessage ==
        Msg(ToString(Reading + 1), "assistant",
            IF ok THEN text ELSE BackendErrorDisplay(text), FALSE)
  IN  /\ allMessages' = SetMsgs(allMessages, r.chat, Append(Msgs(allMessages, r.chat), assistantMessage))
      /\ isTyping' = FALSE
      /\ httpPending' = RemoveAt(httpPending, i)
      /\ chatHistory' = UpdateTitle(chatHistory, r.chat, r.content)
      /\ now' = Reading
      /\ UNCHANGED << epm, activeChatId, ui, wsConnected, consentVars, streamVars,
                      streamingFallbackTimer, wsOut, httpOut >>

(***************************************************************************)
(* handleSendMessage.  `sent` is what sendSpeak / sendCommand returns when *)
(* the socket path is taken.                                               *)
(***************************************************************************)
\* the socket path taken without asking whether the socket is connected
UseSocketAlways == TRUE

\* ws && ws.isConnected()
UseSocket == wsConnected

\* a placeholder and a timer for every payload sent on the socket
StreamsAnswerAlways(isCommand) == TRUE

\* if (!isCommand): a pending streaming message for non-command speak
StreamsAnswer(isCommand) == ~isCommand

SendClassified(inputValue, c, sent) ==
  LET chat           == The(activeChatId)
      t              == Reading
      parsed         == c.parsed
      messageContent == c.messageContent
      isFastPath     == c.isFastPath
      isCommand      == c.isCommand
      local          == parsed.localAssistantMessage
      withUser       == Append(Msgs(allMessages, chat), Msg(ToString(t), "user", inputValue, FALSE))
      withLocal      == IF IsSome(local) /\ The(local) # ""
                        THEN Append(withUser, Msg(ToString(t + 1), "assistant", The(local), FALSE))
                        ELSE withUser
      pendingId      == "assistant-stream-" \o ToString(t)
      withPending    == IF StreamsAnswer(isCommand)
                        THEN Append(withLocal, Msg(pendingId, "assistant", "", TRUE))
                        ELSE withLocal
      payload        == IF isCommand THEN CommandPayload(messageContent)
                        ELSE SpeakPayload(messageContent)
  IN  /\ now' = t
      /\ ui' = ApplyUi(ui, parsed.ui)
      /\ UNCHANGED << epm, activeChatId, wsConnected, wsConsentGranted >>
      /\ IF c.pureUi
         THEN \* pure UI command (no backend invocation)
              /\ allMessages' = SetMsgs(allMessages, chat, withLocal)
              /\ wsOut' = IF IsSome(parsed.systemActionToSend) /\ wsConnected
                          THEN Transmit(wsOut, SystemPayload(The(parsed.systemActionToSend)), TRUE)
                          ELSE wsOut
              /\ isTyping' = FALSE
              /\ UNCHANGED << chatHistory, pendingWsCommand, streamVars,
                              streamingFallbackTimer, httpOut, httpPending >>
         ELSE IF isFastPath
         THEN \* fast-path commands go through HTTP /api/command
              /\ allMessages' = SetMsgs(allMessages, chat, withLocal)
              /\ isTyping' = TRUE
              /\ httpOut' = Append(httpOut, HttpRequest(messageContent, TRUE))
              /\ httpPending' = Append(httpPending, HttpCall(messageContent, TRUE, chat, t, "fast"))
              /\ UNCHANGED << chatHistory, pendingWsCommand, streamVars,
                              streamingFallbackTimer, wsOut >>
         ELSE IF UseSocket
         THEN /\ allMessages' = SetMsgs(allMessages, chat, withPending)
              /\ isTyping' = TRUE
              /\ IF StreamsAnswer(isCommand)
                 THEN /\ streamingMessageId' = Some(pendingId)
                      /\ streamingHasReceivedChunk' = FALSE
                      /\ streamingFallbackTimer' = ArmedTimer(pendingId, chat)
                 ELSE UNCHANGED << streamVars, streamingFallbackTimer >>
              /\ IF c.needsConsent /\ ~wsConsentGranted
                 THEN \* deferred until `system_response`
                      /\ pendingWsCommand' = Some(messageContent)
                      /\ wsOut' = Transmit(wsOut, SystemPayload("grant"), TRUE)
                      /\ UNCHANGED << chatHistory, httpOut, httpPending >>
                 ELSE /\ wsOut' = Transmit(wsOut, payload, sent)
                      /\ UNCHANGED pendingWsCommand
                      /\ IF sent
                         THEN /\ chatHistory' = UpdateTitle(chatHistory, chat, messageContent)
                              /\ UNCHANGED << httpOut, httpPending >>
                         ELSE /\ httpOut' = Append(httpOut, HttpRequest(messageContent, isCommand))
                              /\ httpPending' =
                                   Append(httpPending,
                                          HttpCall(messageContent, isCommand, chat, t, "sendfail"))
                              /\ UNCHANGED chatHistory
         ELSE \* WebSocket not connected, use HTTP
              /\ allMessages' = SetMsgs(allMessages, chat, withLocal)
              /\ isTyping' = TRUE
              /\ httpOut' = Append(httpOut, HttpRequest(messageContent, isCommand))
              /\ httpPending' =
                   Append(httpPending, HttpCall(messageContent, isCommand, chat, t, "offline"))
              /\ UNCHANGED << chatHistory, pendingWsCommand, streamVars,
                              streamingFallbackTimer, wsOut >>

\* a guard that lets a message through while the busy flag is set
AcceptsWhileBusy(blank) == ~blank /\ IsSome(activeChatId)

\* if (!inputValue.trim() || isTyping || !activeChatId) return;
Accepts(blank) == ~blank /\ ~isTyping /\ IsSome(activeChatId)

HandleSendMessage(inputValue, sent) ==
  /\ Accepts(Classified[inputValue].blank)
  /\ SendClassified(inputValue, Classified[inputValue], sent)

\* the orchestrator after the socket log grew from `out` to `out2`
Delivered(b, out, out2, target, chat) ==
  IF Len(out2) > Len(out) THEN Receive(b, out2[Len(out2)], target, chat) ELSE b

\* the turn being answered is overtaken when the client starts another streaming
\* session while it is open
Overtaken(b, started) ==
  IF started /\ IsSome(b.turn) /\ The(b.turn).phase = "open"
  THEN [b EXCEPT !.turn = Some([The(@) EXCEPT !.overtaken = TRUE])]
  ELSE b

(***************************************************************************)
(* Steps.                                                                  *)
(***************************************************************************)
Send(inputValue) ==
  /\ IsSome(activeChatId)
  /\ Len(Msgs(allMessages, The(activeChatId))) + 2 <= MaxLen
  /\ \E sent \in BOOLEAN : HandleSendMessage(inputValue, sent)
  /\ backend' = Delivered(Overtaken(backend, streamingMessageId' # streamingMessageId),
                          wsOut, wsOut',
                          "assistant-stream-" \o ToString(now'), The(activeChatId))
  /\ observed' = [observed EXCEPT
                    !.heard = IF streamingFallbackTimer' # streamingFallbackTimer THEN 0 ELSE @,
                    !.online = wsConnected]
  /\ UNCHANGED pushVars
  /\ UNCHANGED deskVars

Connect ==
  /\ ~wsConnected
  /\ OnConnection(TRUE)
  /\ UNCHANGED << backend, observed >>
  /\ UNCHANGED pushVars
  /\ UNCHANGED deskVars

Disconnect ==
  /\ wsConnected
  /\ OnConnection(FALSE)
  /\ backend' = Dropped(backend)
  /\ observed' = [observed EXCEPT !.hadConsent = @ \/ wsConsentGranted, !.granted = FALSE]
  /\ UNCHANGED pushVars
  /\ UNCHANGED deskVars

TurnOpen == IsSome(backend.turn) /\ The(backend.turn).phase = "open"

\* the texts the next chunk event of the turn may carry
NextChunks ==
  {""} \cup (IF The(backend.turn).tokens < Len(Tokens)
             THEN {Tokens[The(backend.turn).tokens + 1]} ELSE {})

ChunkEvent(chunk, done) ==
  /\ wsConnected
  /\ TurnOpen
  /\ done \/ The(backend.turn).chunks < MaxChunks
  /\ chunk \in NextChunks
  /\ OnSpeakResponseChunk(chunk, done, None)
  /\ backend' = [backend EXCEPT !.turn =
                   Some([The(@) EXCEPT !.sent = @ \o chunk,
                                       !.chunks = @ + 1,
                                       !.tokens = IF chunk = "" THEN @ ELSE @ + 1,
                                       !.phase = IF done THEN "done" ELSE "open",
                                       !.into = Some(ChunkTargetId)])]
  /\ observed' = [observed EXCEPT !.heard = @ + 1]
  /\ UNCHANGED pushVars
  /\ UNCHANGED deskVars

ErrorChunkEvent(error) ==
  /\ wsConnected
  /\ TurnOpen
  /\ OnSpeakResponseChunk("", TRUE, Some(error))
  /\ backend' = [backend EXCEPT !.turn =
                   Some([The(@) EXCEPT !.phase = "error", !.into = Some(ChunkTargetId)])]
  /\ observed' = [observed EXCEPT !.heard = @ + 1]
  /\ UNCHANGED pushVars
  /\ UNCHANGED deskVars

\* the whole response: the only answer of a legacy backend, the compatibility echo of
\* a streaming one
SpeakResponseEvent(message) ==
  /\ wsConnected
  /\ IsSome(backend.turn)
  /\ The(backend.turn).phase \in {"open", "done"}
  /\ The(backend.turn).whole = None
  /\ OnSpeakResponse(message)
  /\ backend' = [backend EXCEPT !.turn =
                   Some([The(@) EXCEPT
                           !.whole = Some(message),
                           !.wholeChunks = The(backend.turn).chunks,
                           !.wholePending =
                              (streamingMessageId = Some(The(backend.turn).target)),
                           !.phase = IF The(backend.turn).chunks = 0 THEN "done" ELSE @])]
  /\ observed' = IF IsSome(streamingMessageId) /\ observed.heard = 0
                 THEN [observed EXCEPT !.hydrated = streamingMessageId] ELSE observed
  /\ UNCHANGED pushVars
  /\ UNCHANGED deskVars

CommandResponseEvent(result) ==
  /\ wsConnected
  /\ backend.commands > 0
  /\ OnCommandResponse(result)
  /\ backend' = [backend EXCEPT !.commands = @ - 1]
  /\ UNCHANGED observed
  /\ UNCHANGED pushVars
  /\ UNCHANGED deskVars

\* a protocol error reported while a speak turn is being answered
SpeakErrorEvent(message) ==
  /\ wsConnected
  /\ TurnOpen
  /\ ~The(backend.turn).erred
  /\ OnError(message)
  /\ backend' = [backend EXCEPT !.turn = Some([The(@) EXCEPT !.erred = TRUE])]
  /\ UNCHANGED observed
  /\ UNCHANGED pushVars
  /\ UNCHANGED deskVars

\* a protocol error as the answer to a command
CommandErrorEvent(message) ==
  /\ wsConnected
  /\ backend.commands > 0
  /\ OnError(message)
  /\ backend' = [backend EXCEPT !.commands = @ - 1]
  /\ UNCHANGED observed
  /\ UNCHANGED pushVars
  /\ UNCHANGED deskVars

SystemReplies(action) == IF action = "grant" THEN {Some(TRUE), Some(FALSE), None} ELSE {Some(FALSE)}

SystemResponseEvent ==
  /\ wsConnected
  /\ backend.system # << >>
  /\ \E reply \in SystemReplies(Head(backend.system)) :
        /\ OnSystemResponse(reply)
        /\ observed' = [observed EXCEPT !.granted = IF IsSome(reply) THEN The(reply) ELSE @]
  /\ backend' = Delivered([backend EXCEPT !.system = Tail(@)], wsOut, wsOut', "", "")
  /\ UNCHANGED pushVars
  /\ UNCHANGED deskVars

TimerFires ==
  /\ TimerArmed
  /\ FallbackTimeout
  /\ observed' = IF streamingMessageId \notin {None, Some(The(streamingFallbackTimer).pendingId)}
                 THEN [observed EXCEPT !.spared = streamingMessageId] ELSE observed
  /\ UNCHANGED backend
  /\ UNCHANGED pushVars
  /\ UNCHANGED deskVars

HttpResponse ==
  /\ \E i \in 1..Len(httpPending) :
        \/ \E text \in ResultTexts :
              /\ HttpSettle(i, TRUE, text)
              /\ observed' = [observed EXCEPT !.settled = Some(httpPending[i].why),
                                             !.failure = None]
        \/ \E text \in FailureTexts :
              /\ HttpSettle(i, FALSE, text)
              /\ observed' = [observed EXCEPT !.settled = Some(httpPending[i].why),
                                             !.failure = Some(text)]
  /\ UNCHANGED backend
  /\ UNCHANGED pushVars
  /\ UNCHANGED deskVars

\* a send in a run whose conversations are kept short
SessionSend(inputValue) ==
  /\ IsSome(activeChatId)
  /\ Len(Msgs(allMessages, The(activeChatId))) + 2 <= MaxSessionLen
  /\ Send(inputValue)

\* the user opens a new session from the side bar
NewSession ==
  /\ Len(chatHistory) < MaxChats
  /\ wsOut = << >> /\ httpOut = << >>
  /\ StartNewOrchestration
  /\ backend' = Dropped(backend)
  /\ observed' = [observed EXCEPT !.hadConsent = @ \/ wsConsentGranted, !.granted = FALSE]
  /\ UNCHANGED deskVars

\* the backend pushes a message nobody asked for
ProactiveEvent(content, reason) ==
  /\ wsConnected
  /\ observed.pushes < MaxPushes
  /\ IsSome(activeChatId) => Len(Msgs(allMessages, The(activeChatId))) + 1 <= MaxSessionLen
  /\ OnProactiveMessage(content, reason)
  /\ backend' = IF activeChatId' # activeChatId THEN Dropped(backend) ELSE backend
  /\ observed' = [observed EXCEPT !.pushes = @ + 1, !.reason = Some(reason)]
  /\ UNCHANGED deskVars

(***************************************************************************)
(* The side bar: onSelectChat={setActiveChatId}, startNewOrchestration and *)
(* handleDeleteChat.  A change of activeChatId runs the socket effect.     *)
(***************************************************************************)
\* chatHistory.filter(item => item.id !== id)
RECURSIVE WithoutChat(_, _)
WithoutChat(history, id) ==
  IF history = << >> THEN << >>
  ELSE IF Head(history).id # id THEN << Head(history) >> \o WithoutChat(Tail(history), id)
       ELSE WithoutChat(Tail(history), id)

\* const { [id]: _, ...rest } = prev, had it kept the list
RestOfMessagesKeeping(all, id) == all

\* const { [id]: _, ...rest } = prev
RestOfMessages(all, id) == [c \in (DOMAIN all) \ {id} |-> all[c]]

setActiveChatId(id) ==
  /\ activeChatId' = Some(id)
  /\ IF activeChatId # Some(id)
     THEN SocketEffect
     ELSE UNCHANGED << streamingFallbackTimer, wsConnected, consentVars, handlers >>
  /\ UNCHANGED << allMessages, chatHistory, isTyping, ui, streamVars, now, wsOut, httpOut,
                  httpPending, epm, notifications, spoken >>

handleDeleteChat(id) ==
  LET history == WithoutChat(chatHistory, id)
      rest    == RestOfMessages(allMessages, id)
  IN  IF activeChatId = Some(id)
      THEN LET t              == Reading
               newChatId      == "chat-" \o ToString(t)
               initialMessage ==
                 Msg(ToString(t), "assistant",
                     "Lead Orchestration Planner initialized for [General Chats]. Context: Sovereign OS. Mapped for User. State: Ready.",
                     FALSE)
           IN  /\ now' = t
               /\ allMessages' = SetMsgs(rest, newChatId, << initialMessage >>)
               /\ chatHistory' =
                    << [id |-> newChatId, title |-> "New Session"] >> \o history
               /\ activeChatId' = Some(newChatId)
               /\ SocketEffect
               /\ UNCHANGED << isTyping, ui, streamVars, wsOut, httpOut, httpPending, epm,
                               notifications, spoken >>
      ELSE /\ allMessages' = rest
           /\ chatHistory' = history
           /\ UNCHANGED << activeChatId, isTyping, ui, wsConnected, consentVars, streamVars,
                           streamingFallbackTimer, now, wsOut, httpOut, httpPending, epm,
                           pushVars >>

\* what the orchestrator owes and what the run has seen, after a step of the side bar
SideBarSeen ==
  /\ observed.switches < MaxSwitches
  /\ backend' = IF activeChatId' # activeChatId THEN Dropped(backend) ELSE backend
  /\ observed' = IF activeChatId' # activeChatId
                 THEN [observed EXCEPT !.hadConsent = @ \/ wsConsentGranted,
                                       !.granted = FALSE, !.switches = @ + 1]
                 ELSE [observed EXCEPT !.switches = @ + 1]

\* the user selects a conversation of the side bar
SelectChat(id) ==
  /\ setActiveChatId(id)
  /\ SideBarSeen
  /\ UNCHANGED deskVars

\* the user opens a new session, in the run in which conversations are switched
OpenSession ==
  /\ Reading <= MaxSwitchClock
  /\ StartNewOrchestration
  /\ SideBarSeen
  /\ UNCHANGED deskVars

\* the user deletes a conversation of the side bar
DeleteChat(id) ==
  /\ activeChatId = Some(id) => Reading <= MaxSwitchClock
  /\ handleDeleteChat(id)
  /\ SideBarSeen
  /\ UNCHANGED deskVars

\* a send in the run in which conversations are switched
SwitchSend(inputValue) ==
  /\ IsSome(activeChatId)
  /\ Len(Msgs(allMessages, The(activeChatId))) + 2 <= MaxSwitchChatLen
  /\ Len(wsOut) + Len(httpOut) < MaxSwitchSends
  /\ Send(inputValue)

(***************************************************************************)
(* The scheduler view: useState<ScheduledTask[]> and the three handlers    *)
(* passed to it.  A task is abbreviated to id, title, priority and status. *)
(***************************************************************************)
INITIAL_TASKS ==
  << [id |-> "task-1", title |-> "Nightly Vulnerability Scan", priority |-> "HIGH",
      status |-> "PENDING"],
     [id |-> "task-2", title |-> "Zscaler Audit Sync", priority |-> "MEDIUM",
      status |-> "RUNNING"] >>

\* Date.now() at the instant t of the logical clock, which counts from the launch
Launch == 1000000
DateNow(t) == Launch + t

\* prev.filter(t => t.id !== id), had it dropped every task
WithoutAnyTask(prev, id) == << >>

RECURSIVE WithoutTask(_, _)
\* prev.filter(t => t.id !== id)
WithoutTask(prev, id) ==
  IF prev = << >> THEN << >>
  ELSE IF Head(prev).id # id THEN << Head(prev) >> \o WithoutTask(Tail(prev), id)
       ELSE WithoutTask(Tail(prev), id)

\* prev.map(t => t.id === updatedTask.id ? updatedTask : t)
WithTask(prev, updatedTask) ==
  [i \in DOMAIN prev |-> IF prev[i].id = updatedTask.id THEN updatedTask ELSE prev[i]]

\* task: Omit<ScheduledTask, 'id' | 'status'>
handleAddTask(task) ==
  LET t       == Reading
      newTask == [id |-> "task-" \o ToString(DateNow(t)), title |-> task.title,
                  priority |-> task.priority, status |-> "PENDING"]
  IN  /\ now' = t
      /\ scheduledTasks' = Append(scheduledTasks, newTask)

handleUpdateTask(updatedTask) ==
  /\ scheduledTasks' = WithTask(scheduledTasks, updatedTask)
  /\ UNCHANGED now

handleDeleteTask(id) ==
  /\ scheduledTasks' = WithoutTask(scheduledTasks, id)
  /\ UNCHANGED now

\* what the scheduler view submits: a new task, an edit of a task it shows or of one
\* that is no longer held, and the id of a task it shows or of one no longer held
NewTasks == {[title |-> "Weekly Report", priority |-> "LOW"]}
TaskStatuses == {"PENDING", "RUNNING"}
StaleTask == [id |-> "task-0", title |-> "Gone", priority |-> "LOW", status |-> "RUNNING"]
TaskEdits ==
  {[scheduledTasks[i] EXCEPT !.status = st] : i \in DOMAIN scheduledTasks, st \in TaskStatuses}
    \cup {StaleTask}
TaskIds == {scheduledTasks[i].id : i \in DOMAIN scheduledTasks} \cup {StaleTask.id}

\* what a step of the scheduler view leaves alone
TaskFrame ==
  UNCHANGED << chatVars, pushVars, settingsVars, modeAtom, ghostVars, backend, observed >>

AddTask(task) ==
  /\ Len(scheduledTasks) < MaxTasks
  /\ Reading <= MaxTaskClock
  /\ handleAddTask(task)
  /\ TaskFrame

UpdateTask(updatedTask) ==
  /\ handleUpdateTask(updatedTask)
  /\ TaskFrame

DeleteTask(id) ==
  /\ handleDeleteTask(id)
  /\ TaskFrame

\* a proactive push in the run with the scheduler view
TaskPush(content, reason) ==
  /\ observed.pushes < MaxTaskPushes
  /\ ProactiveEvent(content, reason)

\* a send in the run with the scheduler view, whose conversation is one turn long
TaskSend(inputValue) ==
  /\ IsSome(activeChatId)
  /\ Len(Msgs(allMessages, The(activeChatId))) + 2 <= MaxTaskChatLen
  /\ Send(inputValue)

(***************************************************************************)
(* The settings dialog: the working values are edited in place as a        *)
(* preview, a snapshot taken on opening restores them on cancel, and only  *)
(* saving writes window.localStorage.  An env config is abbreviated to two *)
(* of its fields.                                                          *)
(***************************************************************************)
DEFAULT_ENV_CONFIG == [USER_NAME |-> "John", PHOENIX_CUSTOM_NAME |-> "Sola"]

SettingsKeys ==
  {"phx_env_config", "phx_custom_logo", "phx_custom_favicon", "phx_custom_chat_logo",
   "phx_custom_user_logo"}

\* the storage of a first launch
EmptyStorage == [k \in SettingsKeys |-> None]

\* JSON.stringify(config)
JSONstringify(config) == << "json", config >>

\* if (value) localStorage.setItem(key, value); else localStorage.removeItem(key);
SetOrRemove(value) == IF IsSome(value) /\ The(value) # "" THEN value ELSE None

Branding == [logo |-> customLogo, favicon |-> customFavicon, chatLogo |-> customChatLogo,
             userLogo |-> customUserLogo]

openSettings ==
  /\ snapshotEnvConfig' = Some(envConfig)
  /\ snapshotBranding' = Some(Branding)
  /\ isSettingsOpen' = TRUE
  /\ UNCHANGED << envConfig, brandingVars, localStorage >>

handleBrandingUpdatePreview(logo, favicon, chatLogo, userLogo) ==
  /\ customLogo' = logo
  /\ customFavicon' = favicon
  /\ customChatLogo' = chatLogo
  /\ customUserLogo' = userLogo
  /\ UNCHANGED << envConfig, snapshotEnvConfig, snapshotBranding, isSettingsOpen,
                  localStorage >>

handleEnvConfigUpdatePreview(config) ==
  /\ envConfig' = config
  /\ UNCHANGED << brandingVars, snapshotEnvConfig, snapshotBranding, isSettingsOpen,
                  localStorage >>

\* the values handleSaveSettings writes
Persisted ==
  [k \in SettingsKeys |->
     CASE k = "phx_env_config"       -> Some(JSONstringify(envConfig))
       [] k = "phx_custom_logo"      -> SetOrRemove(customLogo)
       [] k = "phx_custom_favicon"   -> SetOrRemove(customFavicon)
       [] k = "phx_custom_chat_logo" -> SetOrRemove(customChatLogo)
       [] k = "phx_custom_user_logo" -> SetOrRemove(customUserLogo)]

\* handleSaveSettings, had it written nothing
PersistedNothing == localStorage

handleSaveSettings ==
  /\ localStorage' = Persisted
  /\ isSettingsOpen' = FALSE
  /\ snapshotEnvConfig' = None
  /\ snapshotBranding' = None
  /\ UNCHANGED << envConfig, brandingVars >>

\* the branding a cancel leaves, had it kept the logo of the preview
RestoredBrandingButLogo(snapshot) == [snapshot EXCEPT !.logo = customLogo]

\* the branding a cancel leaves
RestoredBranding(snapshot) == snapshot

handleCancelSettings ==
  /\ envConfig' = IF IsSome(snapshotEnvConfig) THEN The(snapshotEnvConfig) ELSE envConfig
  /\ IF IsSome(snapshotBranding)
     THEN LET restored == RestoredBranding(The(snapshotBranding))
          IN  /\ customLogo' = restored.logo
              /\ customFavicon' = restored.favicon
              /\ customChatLogo' = restored.chatLogo
              /\ customUserLogo' = restored.userLogo
     ELSE UNCHANGED brandingVars
  /\ isSettingsOpen' = FALSE
  /\ snapshotEnvConfig' = None
  /\ snapshotBranding' = None
  /\ UNCHANGED localStorage

\* what the settings dialog submits as a preview
EnvConfigs ==
  {DEFAULT_ENV_CONFIG, [DEFAULT_ENV_CONFIG EXCEPT !.PHOENIX_CUSTOM_NAME = "Nova"]}
Images == {None, Some("data:image/png;base64,AAAA")}

\* what a step of the settings dialog leaves alone
SettingsFrame ==
  UNCHANGED << clientVars, pushVars, scheduledTasks, modeAtom, ghostVars, backend >>

OpenSettings ==
  /\ openSettings
  /\ observed' = [observed EXCEPT !.opened = Some([envConfig |-> envConfig,
                                                   branding |-> Branding])]
  /\ SettingsFrame

PreviewBranding(logo, favicon, chatLogo, userLogo) ==
  /\ isSettingsOpen
  /\ handleBrandingUpdatePreview(logo, favicon, chatLogo, userLogo)
  /\ UNCHANGED observed
  /\ SettingsFrame

PreviewEnvConfig(config) ==
  /\ isSettingsOpen
  /\ handleEnvConfigUpdatePreview(config)
  /\ UNCHANGED observed
  /\ SettingsFrame

SaveSettings ==
  /\ isSettingsOpen
  /\ handleSaveSettings
  /\ UNCHANGED observed
  /\ SettingsFrame

CancelSettings ==
  /\ isSettingsOpen
  /\ handleCancelSettings
  /\ UNCHANGED observed
  /\ SettingsFrame

(***************************************************************************)
(* The navigation mode (jotai atoms): the direct setter and the toggle.    *)
(***************************************************************************)
Modes == {"Professional", "Personal", "Counselor"}

\* a toggle that goes round the three modes
ToggledRound(currentMode) ==
  CASE currentMode = "Professional" -> "Personal"
    [] currentMode = "Personal"     -> "Counselor"
    [] OTHER                        -> "Professional"

\* currentMode === 'Professional' ? 'Personal' : 'Professional'
Toggled(currentMode) == IF currentMode = "Professional" THEN "Personal" ELSE "Professional"

setModeAtom(next) == modeAtom' = next

toggleModeAtom == modeAtom' = Toggled(modeAtom)

\* what a step of the navigation leaves alone
ModeFrame ==
  UNCHANGED << clientVars, pushVars, scheduledTasks, settingsVars, ghostVars, backend >>

SetMode(next) ==
  /\ setModeAtom(next)
  /\ UNCHANGED observed
  /\ ModeFrame

ToggleMode ==
  /\ toggleModeAtom
  /\ observed' = [observed EXCEPT !.toggled = Some([from |-> modeAtom, to |-> modeAtom'])]
  /\ ModeFrame

(***************************************************************************)
(* utils/nvcBreach.ts.  A breach is its kind and its needle; the message,  *)
(* which the kind determines, is left out.                                 *)
(***************************************************************************)
\* const push = (kind, needle, message) => { if (t.includes(needle)) out.push(...) }, had
\* it pushed whatever the text
PushedAnyway(t, kind, needle) == << [kind |-> kind, needle |-> needle] >>

\* const push = (kind, needle, message) => { if (t.includes(needle)) out.push(...) }
Pushed(t, kind, needle) ==
  IF Includes(t, needle) THEN << [kind |-> kind, needle |-> needle] >> ELSE << >>

\* for (const w of words) push(kind, w, ...)
RECURSIVE PushedEach(_, _, _)
PushedEach(t, kind, words) ==
  IF words = << >> THEN << >>
  ELSE Pushed(t, kind, Head(words)) \o PushedEach(t, kind, Tail(words))

RECURSIVE uniqFrom(_, _)
uniqFrom(items, seen) ==
  IF items = << >> THEN << >>
  ELSE LET k == << Head(items).kind, Head(items).needle >>
       IN  IF k \in seen THEN uniqFrom(Tail(items), seen)
           ELSE << Head(items) >> \o uniqFrom(Tail(items), seen \cup {k})

uniqByNeedle(items) == uniqFrom(items, {})

detectNvcBreaches(input) ==
  LET t == ToLowerCase(Trim(input))
  IN  IF t = << >> THEN << >>
      ELSE uniqByNeedle(
             PushedEach(t, "absolute", << "always", "never" >>)
               \o PushedEach(t, "judgment",
                             << "wrong", "bad", "ridiculous", "selfish", "lazy", "crazy",
                                "stupid" >>)
               \o PushedEach(t, "directive", << "you should", "you need to", "you have to" >>)
               \o PushedEach(t, "blame", << "you make me feel", "because you", "your fault" >>)
               \o Pushed(t, "you_statement", "you are"))

(***************************************************************************)
(* components/CounselorDashboard.tsx, RelationalGhost: the script, the     *)
(* intensity slider, sendToGhost and the regulatory brake.  sendToGhost is *)
(* an async function of the render in which the user pressed Send: what it *)
(* does after the await it does with the intensity and the brake of that   *)
(* render.  A ChatItem is abbreviated to its role.                         *)
(***************************************************************************)
INITIAL_DRAFT ==
  "When I notice our conversations getting tense after work, I feel overwhelmed because I need calm and connection. Would you be willing to do a 10-minute check-in tonight?"

\* what the user writes as a script: the script proposed, nothing, blanks, a script with
\* an absolute, a judgment, a blame and an evaluation in capitals and between blanks,
\* and a script with two directives of which one occurs twice
Drafts ==
  {INITIAL_DRAFT, "", "  ", " You ALWAYS do this because you are lazy ",
   "you should go, you should, you have to"}

\* useMemo(() => detectNvcBreaches(draft), [draft]), for every script
LocalBreaches == [text \in Drafts |-> detectNvcBreaches(text)]

\* the positions of the slider the user leaves it at
Intensities == {35, 69, 70}

\* data.risk_score of a reply
Risks == {84, 85, 90, 115, 116}

Min(a, b) == IF a < b THEN a ELSE b
Max(a, b) == IF a > b THEN a ELSE b

\* the seconds of a brake, had the mapping no upper end
BrakeSecondsUnclamped(risk_score) == Max(60, 60 + (risk_score - 85) * 3)

\* Math.max(60, Math.min(150, 60 + (data.risk_score - 85) * 3))
BrakeSeconds(risk_score) == Max(60, Min(150, 60 + (risk_score - 85) * 3))

\* brake.startBrake(seconds)
startBrake(seconds) == brake' = [blocked |-> TRUE, started |-> Append(brake.started, seconds)]

sendToGhost ==
  LET script == Trim(draft)
  IN  /\ script # ""
      /\ ghostError' = None
      /\ loading' = TRUE
      /\ ghostChat' = Append(ghostChat, [role |-> "user"])
      /\ ghostRequest' = Some([script |-> script, intensity_level |-> intensity,
                               aggressiveMode |-> intensity >= 70,
                               blocked |-> brake.blocked])
      /\ UNCHANGED << draft, intensity, brake >>

\* the rest of sendToGhost after a reply of status 2xx
GhostReplied(risk_score) ==
  LET request == The(ghostRequest)
  IN  /\ ghostChat' = Append(ghostChat, [role |-> "ghost"])
      /\ IF request.aggressiveMode /\ risk_score >= 85 /\ ~request.blocked
         THEN startBrake(BrakeSeconds(risk_score))
         ELSE UNCHANGED brake
      /\ loading' = FALSE
      /\ ghostRequest' = None
      /\ UNCHANGED << draft, intensity, ghostError >>

\* the rest of sendToGhost after fetch threw or the status was not 2xx
GhostFailed(message) ==
  /\ ghostError' = Some(message)
  /\ loading' = FALSE
  /\ ghostRequest' = None
  /\ UNCHANGED << draft, intensity, ghostChat, brake >>

\* what a step of the relational ghost leaves alone
GhostFrame ==
  UNCHANGED << clientVars, pushVars, scheduledTasks, settingsVars, modeAtom, backend,
               observed >>

EditDraft(text) ==
  /\ draft' = text
  /\ UNCHANGED << intensity, loading, ghostError, ghostChat, ghostRequest, brake >>
  /\ GhostFrame

SetIntensity(value) ==
  /\ intensity' = value
  /\ UNCHANGED << draft, loading, ghostError, ghostChat, ghostRequest, brake >>
  /\ GhostFrame

\* the Send button: disabled={loading || !String(draft || '').trim()}
SendToGhost ==
  /\ ~loading
  /\ Len(ghostChat) < 2 * MaxGhostTurns
  /\ sendToGhost
  /\ GhostFrame

GhostReply(risk_score) ==
  /\ IsSome(ghostRequest)
  /\ GhostReplied(risk_score)
  /\ GhostFrame

GhostFailure ==
  /\ IsSome(ghostRequest)
  /\ GhostFailed("HTTP 500")
  /\ GhostFrame

\* the countdown of the brake reaches zero
BrakeEnds ==
  /\ brake.blocked
  /\ brake' = [brake EXCEPT !.blocked = FALSE]
  /\ UNCHANGED << draft, intensity, loading, ghostError, ghostChat, ghostRequest >>
  /\ GhostFrame

(***************************************************************************)
(* Specification.                                                          *)
(***************************************************************************)
Init ==
  /\ activeChatId = Some("h1")
  /\ allMessages =
       [c \in {"h1"} |->
          << Msg("1", "assistant",
                 "System session restored. Lead Orchestration Planner initialized. Context: General Chats.",
                 FALSE) >>]
  /\ chatHistory = << [id |-> "h1", title |-> "System Initialization"],
                      [id |-> "h2", title |-> "Security Protocol Audit"] >>
  /\ isTyping = FALSE
  /\ ui = [showBrowserPanel |-> FALSE, showDreamsPanel |-> FALSE,
           voiceOutputEnabled |-> FALSE, themeLight |-> FALSE]
  /\ wsConnected = FALSE
  /\ wsConsentGranted = FALSE
  /\ pendingWsCommand = None
  /\ streamingMessageId = None
  /\ streamingHasReceivedChunk = FALSE
  /\ streamingFallbackTimer = None
  /\ now = 0
  /\ wsOut = << >>
  /\ httpOut = << >>
  /\ httpPending = << >>
  /\ epm = << >>
  /\ handlers = Registered(ui)
  /\ notifications = << >>
  /\ spoken = << >>
  /\ scheduledTasks = INITIAL_TASKS
  /\ envConfig = DEFAULT_ENV_CONFIG
  /\ customLogo = None
  /\ customFavicon = None
  /\ customChatLogo = None
  /\ customUserLogo = None
  /\ snapshotEnvConfig = None
  /\ snapshotBranding = None
  /\ isSettingsOpen = FALSE
  /\ localStorage = EmptyStorage
  /\ modeAtom = "Professional"
  /\ draft = INITIAL_DRAFT
  /\ intensity = 35
  /\ loading = FALSE
  /\ ghostError = None
  /\ ghostChat = << >>
  /\ ghostRequest = None
  /\ brake = [blocked |-> FALSE, started |-> << >>]
  /\ backend = NoBackend
  /\ observed = NothingObserved

Events ==
  \/ Connect
  \/ Disconnect
  \/ \E chunk \in ChunkTexts, done \in BOOLEAN : ChunkEvent(chunk, done)
  \/ \E error \in ErrorTexts : ErrorChunkEvent(error)
  \/ \E message \in WholeTexts : SpeakResponseEvent(message)
  \/ \E result \in ResultTexts : CommandResponseEvent(result)
  \/ \E message \in ErrorTexts : SpeakErrorEvent(message)
  \/ \E message \in ErrorTexts : CommandErrorEvent(message)
  \/ SystemResponseEvent
  \/ TimerFires
  \/ HttpResponse

Next ==
  \/ \E inputValue \in Inputs : Send(inputValue)
  \/ Events

Spec == Init /\ [][Next]_vars

\* the run of a session in which the user opens a new conversation and the backend
\* pushes proactive messages while chat turns are streamed
SessionNext ==
  \/ \E inputValue \in SessionInputs : SessionSend(inputValue)
  \/ NewSession
  \/ \E content \in PushTexts, reason \in PushReasons : ProactiveEvent(content, reason)
  \/ Connect
  \/ Disconnect
  \/ \E chunk \in ChunkTexts, done \in BOOLEAN : ChunkEvent(chunk, done)
  \/ \E message \in ErrorTexts : SpeakErrorEvent(message)
  \/ TimerFires
  \/ HttpResponse

SessionSpec == Init /\ [][SessionNext]_vars

\* the run in which the user types what exercises the router
RouterNext ==
  \/ \E inputValue \in RouterInputs : Send(inputValue)
  \/ Connect
  \/ Disconnect
  \/ \E chunk \in ChunkTexts, done \in BOOLEAN : ChunkEvent(chunk, done)
  \/ \E result \in ResultTexts : CommandResponseEvent(result)
  \/ \E message \in ErrorTexts : SpeakErrorEvent(message)
  \/ TimerFires
  \/ HttpResponse

RouterSpec == Init /\ [][RouterNext]_vars

\* the run in which the user types the same texts in two cases
CaseNext ==
  \/ \E inputValue \in CaseInputs : SessionSend(inputValue)
  \/ Connect
  \/ Disconnect
  \/ \E chunk \in ChunkTexts, done \in BOOLEAN : ChunkEvent(chunk, done)
  \/ \E result \in ResultTexts : CommandResponseEvent(result)
  \/ SystemResponseEvent
  \/ TimerFires
  \/ HttpResponse

CaseSpec == Init /\ [][CaseNext]_vars

\* what the user types in the run with the scheduler view: free-form chat, a phrase
\* rewritten to a backend command, and the consent action
TaskInputs == {"Hello", "show dreams", "system grant"}

\* the run in which the scheduler view is used while every socket event, the timer and
\* the connectivity changes occur
TaskNext ==
  \/ \E task \in NewTasks : AddTask(task)
  \/ \E updatedTask \in TaskEdits : UpdateTask(updatedTask)
  \/ \E id \in TaskIds : DeleteTask(id)
  \/ \E inputValue \in TaskInputs : TaskSend(inputValue)
  \/ \E content \in PushTexts : TaskPush(content, "comfort")
  \/ Events

TaskSpec == Init /\ [][TaskNext]_vars

\* what the user types in the run in which conversations are switched: free-form chat,
\* a phrase rewritten to a backend command, the voice toggle and the consent action
SwitchInputs == {"Hello", "show dreams", "voice on", "system grant"}

\* the conversations of the side bar
ChatIds == {chatHistory[i].id : i \in DOMAIN chatHistory}

\* the run in which the user selects, opens and deletes conversations between sends
SwitchNext ==
  \/ \E id \in ChatIds : SelectChat(id)
  \/ OpenSession
  \/ \E id \in ChatIds : DeleteChat(id)
  \/ \E inputValue \in SwitchInputs : SwitchSend(inputValue)
  \/ Connect
  \/ Disconnect
  \/ \E chunk \in ChunkTexts, done \in BOOLEAN : ChunkEvent(chunk, done)
  \/ \E result \in ResultTexts : CommandResponseEvent(result)
  \/ SystemResponseEvent
  \/ TimerFires
  \/ HttpResponse

SwitchSpec == Init /\ [][SwitchNext]_vars

\* the run in which the settings dialog is used
DeskNext ==
  \/ OpenSettings
  \/ \E logo \in Images, favicon \in Images, chatLogo \in Images, userLogo \in Images :
       PreviewBranding(logo, favicon, chatLogo, userLogo)
  \/ \E config \in EnvConfigs : PreviewEnvConfig(config)
  \/ SaveSettings
  \/ CancelSettings

DeskSpec == Init /\ [][DeskNext]_vars

\* the run in which the user navigates between the modes and rehearses with the
\* relational ghost of the counselor dashboard
CounselorNext ==
  \/ \E next \in Modes : SetMode(next)
  \/ ToggleMode
  \/ \E text \in Drafts : EditDraft(text)
  \/ \E value \in Intensities : SetIntensity(value)
  \/ SendToGhost
  \/ \E risk_score \in Risks : GhostReply(risk_score)
  \/ GhostFailure
  \/ BrakeEnds

CounselorSpec == Init /\ [][CounselorNext]_vars

(***************************************************************************)
(* Steps as the properties recognise them.                                 *)
(***************************************************************************)
\* the step is handleSendMessage accepting inputValue: time advances and the user
\* Message of that instant carries the text as typed
Typed(inputValue) ==
  /\ now' = now + 2
  /\ IsSome(activeChatId)
  /\ \E i \in 1..Len(Msgs(allMessages', The(activeChatId))) :
        Msgs(allMessages', The(activeChatId))[i] = Msg(ToString(now'), "user", inputValue, FALSE)

\* the step handles a speak_response event
WholeResponseStep ==
  /\ IsSome(backend.turn) /\ The(backend.turn).whole = None
  /\ IsSome(backend'.turn) /\ The(backend'.turn).whole # None

\* the step is the fallback timer firing
TimerStep == TimerArmed /\ ~TimerArmed'

\* the step is the response of an HTTP call
HttpStep == Len(httpPending') < Len(httpPending)

\* the conversation gained exactly one Message, at its end
GainedOne(list, list2) == Len(list2) = Len(list) + 1 /\ SubSeq(list2, 1, Len(list)) = list

\* the effective message text of an input, trimmed and lower-cased
EffectiveLower ==
  [inputValue \in Inputs |->
     MessageLower(MessageToSend(parseChatCommand(inputValue).commandToSend, inputValue))]

\* the effective text starts with one of the seven fast-path prefixes
StartsWithFastPrefix(inputValue) ==
  \E p \in {"system ", "code ", "exec ", "execute ", "skills ", "google ", "ecosystem "} :
     StartsWith(EffectiveLower[inputValue], p)

\* a privileged command: the effective text starts with `system ` and the input is
\* dispatched to the backend
Privileged(inputValue) ==
  /\ StartsWith(EffectiveLower[inputValue], "system ")
  /\ IsSome(parseChatCommand(inputValue).commandToSend)

\* the deferral branch of handleSendMessage is never taken: the pending slot is empty
\* in every reachable state
PendingSlotStaysEmpty == pendingWsCommand = None

(***************************************************************************)
(* C1.                                                                     *)
(***************************************************************************)
\* C1: once the terminal chunk event of a turn has been handled (no chunk of the turn
\* carried an error, and the user started no other streaming turn while this one was
\* open), the Message the chunks were written to holds the concatenation of all chunk
\* texts of the turn in arrival order, the terminal one included, and its streaming
\* flag is false.
C1_FinalContentIsConcatenation ==
  (/\ IsSome(backend.turn)
   /\ The(backend.turn).phase = "done"
   /\ The(backend.turn).chunks > 0
   /\ ~The(backend.turn).overtaken) =>
    LET turn == The(backend.turn)
        list == Msgs(allMessages, turn.chat)
    IN  /\ IsSome(turn.into)
        /\ HasTarget(list, The(turn.into))
        /\ \A i \in 1..Len(list) :
              list[i].id = The(turn.into) =>
                list[i].content = turn.sent /\ ~list[i].isStreaming

\* a turn streamed as "Hi " and "there!" is finalized with content "Hi there!"
C1_Witness ==
  /\ IsSome(backend.turn)
  /\ The(backend.turn).phase = "done"
  /\ The(backend.turn).chunks >= 2
  /\ The(backend.turn).sent = "Hi there!"
  /\ The(backend.turn).into = Some(The(backend.turn).target)
  /\ \E i \in 1..Len(Msgs(allMessages, "h1")) :
        /\ Msgs(allMessages, "h1")[i].id = The(backend.turn).target
        /\ Msgs(allMessages, "h1")[i].content = "Hi there!"
        /\ ~Msgs(allMessages, "h1")[i].isStreaming

(***************************************************************************)
(* C2.                                                                     *)
(***************************************************************************)
\* C2: if a chunk with text was received for the turn, handling a speak_response event
\* of the same turn changes no conversation: no Message is added and no content is
\* changed, while the stream is accumulating and after the terminal chunk.
C2_WholeResponseIgnoredAfterChunks ==
  [][(WholeResponseStep /\ The(backend.turn).tokens >= 1) => allMessages' = allMessages]_vars

C7_FastPrefixAlwaysHttp ==
  [][\A inputValue \in Inputs :
       (Typed(inputValue) /\ StartsWithFastPrefix(inputValue)) =>
          /\ httpOut' = Append(httpOut, HttpRequest(Classified[inputValue].messageContent, TRUE))
          /\ wsOut' = wsOut
          /\ ~HasTarget(Msgs(allMessages', The(activeChatId)),
                        "assistant-stream-" \o ToString(now'))
          /\ UNCHANGED << streamVars, streamingFallbackTimer, consentVars >>]_vars

\* C7 (amended): the same, for every such input that the local parser does not handle
\* by itself (the consent actions and the usage replies of incomplete browser commands
\* are handled locally and reach no HTTP endpoint).
C7_FastPathCommandAlwaysHttp ==
  [][\A inputValue \in Inputs :
       (/\ Typed(inputValue)
        /\ StartsWithFastPrefix(inputValue)
        /\ ~Classified[inputValue].pureUi) =>
          /\ httpOut' = Append(httpOut, HttpRequest(Classified[inputValue].messageContent, TRUE))
          /\ wsOut' = wsOut
          /\ ~HasTarget(Msgs(allMessages', The(activeChatId)),
                        "assistant-stream-" \o ToString(now'))
          /\ UNCHANGED << streamVars, streamingFallbackTimer, consentVars >>]_vars

\* "  EXEC ls " was sent while the socket was connected with consent granted, and went
\* over HTTP as typed
C7_Witness ==
  /\ observed.online /\ wsConnected /\ wsConsentGranted
  /\ \E i \in 1..Len(httpPending) :
        /\ httpPending[i].at = now
        /\ httpPending[i].why = "fast"
        /\ httpPending[i].content = "  EXEC ls "
  /\ httpOut[Len(httpOut)] = [endpoint |-> "command", text |-> "  EXEC ls "]

(***************************************************************************)
(* C8.                                                                     *)
(***************************************************************************)
\* C8: when the fallback timer fires while the placeholder of its turn is pending and
\* no chunk event was handled for it, that placeholder (still empty and streaming) is
\* removed from the conversation, every other Message stays, and no target id is
\* pending afterward.
C8_TimeoutRemovesPlaceholder ==
  [][(/\ TimerStep
      /\ streamingMessageId = Some(The(streamingFallbackTimer).pendingId)
      /\ HasTarget(Msgs(allMessages, The(streamingFallbackTimer).chat),
                   The(streamingFallbackTimer).pendingId)
      /\ observed.heard = 0) =>
        LET t    == The(streamingFallbackTimer)
            list == Msgs(allMessages', t.chat)
            old  == Msgs(allMessages, t.chat)
        IN  /\ ~HasTarget(list, t.pendingId)
            /\ \E k \in 1..Len(old) :
                  /\ old[k] = Msg(t.pendingId, "assistant", "", TRUE)
                  /\ list = RemoveAt(old, k)
            /\ streamingMessageId' = None]_vars

\* the timer of a turn fired with no chunk heard and no whole response: the placeholder
\* is gone while the turn is still unanswered
C8_Witness ==
  /\ IsSome(streamingFallbackTimer) /\ ~The(streamingFallbackTimer).armed
  /\ observed.heard = 0
  /\ IsSome(backend.turn)
  /\ The(backend.turn).target = The(streamingFallbackTimer).pendingId
  /\ The(backend.turn).whole = None
  /\ ~HasTarget(Msgs(allMessages, The(streamingFallbackTimer).chat),
                The(streamingFallbackTimer).pendingId)
  /\ streamingMessageId = None

(***************************************************************************)
(* C9.                                                                     *)
(***************************************************************************)
\* C9: a speak_response handled while the placeholder is pending, no chunk event was
\* handled and the timer has not fired puts the full text into the placeholder (same
\* id, same number of Messages, every other Message unchanged) with streaming false;
\* the timer of that turn firing later changes no conversation.
C9_LegacyResponseHydratesPlaceholder ==
  [][/\ (/\ WholeResponseStep
         /\ IsSome(streamingMessageId)
         /\ observed.heard = 0
         /\ TimerArmed
         /\ The(streamingFallbackTimer).pendingId = The(streamingMessageId)) =>
           LET id    == The(streamingMessageId)
               list  == Msgs(allMessages, The(activeChatId))
               list2 == Msgs(allMessages', The(activeChatId))
           IN  /\ HasTarget(list, id)
               /\ Len(list2) = Len(list)
               /\ \A i \in 1..Len(list) :
                     IF list[i].id = id
                     THEN list2[i] = [list[i] EXCEPT !.content = The(backend'.turn).whole[1],
                                                     !.isStreaming = FALSE]
                     ELSE list2[i] = list[i]
     /\ (/\ TimerStep
         /\ observed.hydrated = Some(The(streamingFallbackTimer).pendingId)) =>
           allMessages' = allMessages]_vars

\* the placeholder of a turn holds the whole response "Hi there!", and the timer of that
\* turn has fired since
C9_Witness ==
  /\ IsSome(streamingFallbackTimer) /\ ~The(streamingFallbackTimer).armed
  /\ observed.hydrated = Some(The(streamingFallbackTimer).pendingId)
  /\ observed.heard = 0
  /\ \E i \in 1..Len(Msgs(allMessages, "h1")) :
        /\ Msgs(allMessages, "h1")[i].id = The(streamingFallbackTimer).pendingId
        /\ Msgs(allMessages, "h1")[i].content = "Hi there!"
        /\ ~Msgs(allMessages, "h1")[i].isStreaming

(***************************************************************************)
(* C10.                                                                    *)
(***************************************************************************)
\* no HTTP call made because the socket was closed has a streaming placeholder of its
\* turn in its conversation
NoPlaceholderForOfflineTurn ==
  \A i \in 1..Len(httpPending) :
     httpPending[i].why = "offline" =>
       ~HasTarget(Msgs(allMessages, httpPending[i].chat),
                  "assistant-stream-" \o ToString(httpPending[i].at))

\* C10: free-form chat sent while the socket is not connected goes over the HTTP speak
\* endpoint and not over the socket; the send adds the user Message only and starts no
\* streaming session; while the call is in flight no placeholder of that turn exists;
\* its response adds exactly one assistant Message, with streaming false.
C10_OfflineChatGoesOverHttp ==
  [][/\ \A inputValue \in Inputs :
          (/\ Typed(inputValue)
           /\ parseChatCommand(inputValue).kind = "pass_through"
           /\ ~Classified[inputValue].isCommand
           /\ ~wsConnected) =>
             /\ httpOut' = Append(httpOut, [endpoint |-> "speak", text |-> inputValue])
             /\ wsOut' = wsOut
             /\ Msgs(allMessages', The(activeChatId)) =
                  Append(Msgs(allMessages, The(activeChatId)),
                         Msg(ToString(now'), "user", inputValue, FALSE))
             /\ UNCHANGED << streamVars, streamingFallbackTimer >>
     /\ NoPlaceholderForOfflineTurn'
     /\ (HttpStep /\ observed'.settled = Some("offline")) =>
          \E chat \in DOMAIN allMessages :
             /\ GainedOne(allMessages[chat], Msgs(allMessages', chat))
             /\ Msgs(allMessages', chat)[Len(allMessages[chat]) + 1].role = "assistant"
             /\ ~Msgs(allMessages', chat)[Len(allMessages[chat]) + 1].isStreaming
             /\ \A other \in DOMAIN allMessages \ {chat} :
                   Msgs(allMessages', other) = allMessages[other]]_vars

\* "Hello" was sent with the socket closed and nothing else: the conversation holds the
\* initial Message, the user Message and the one assistant Message of the HTTP result
C10_Witness ==
  /\ ~observed.online
  /\ observed.settled = Some("offline")
  /\ httpOut = << [endpoint |-> "speak", text |-> "Hello"] >>
  /\ httpPending = << >>
  /\ wsOut = << >>
  /\ Len(Msgs(allMessages, "h1")) = 3
  /\ Msgs(allMessages, "h1")[2] = Msg(ToString(now - 2), "user", "Hello", FALSE)
  /\ Msgs(allMessages, "h1")[3] = Msg(ToString(now + 1), "assistant", "ok", FALSE)

(***************************************************************************)
(* C11.                                                                    *)
(***************************************************************************)
\* the step is handleSendMessage accepting free-form chat on a connected socket whose
\* send reports failure: nothing reaches the socket
SpeakSendFails(inputValue) ==
  /\ Typed(inputValue)
  /\ ~Classified[inputValue].pureUi
  /\ ~Classified[inputValue].isCommand
  /\ wsConnected
  /\ wsOut' = wsOut

\* the step is the response of HTTP call i, made because the send of a speak payload
\* failed
SendFailureSettles(i) ==
  /\ HttpStep
  /\ httpPending' = RemoveAt(httpPending, i)
  /\ httpPending[i].why = "sendfail"
  /\ ~httpPending[i].isCommand

\* C11: when the socket is connected and send reports failure for a speak payload, the
\* text goes over the HTTP speak endpoint, no streaming placeholder is created for the
\* turn and no streaming session starts; the HTTP response adds exactly one assistant
\* Message, with streaming false, and leaves no placeholder of that turn in the
\* conversation.
C11_SendFailureLeavesNoPlaceholder ==
  [][/\ \A inputValue \in Inputs :
          SpeakSendFails(inputValue) =>
             /\ httpOut' = Append(httpOut, [endpoint |-> "speak", text |-> inputValue])
             /\ ~HasTarget(Msgs(allMessages', The(activeChatId)),
                           "assistant-stream-" \o ToString(now'))
             /\ UNCHANGED streamVars
     /\ \A i \in 1..Len(httpPending) :
          SendFailureSettles(i) =>
             LET chat  == httpPending[i].chat
                 list  == Msgs(allMessages, chat)
                 list2 == Msgs(allMessages', chat)
             IN  /\ GainedOne(list, list2)
                 /\ list2[Len(list2)].role = "assistant"
                 /\ ~list2[Len(list2)].isStreaming
                 /\ ~HasTarget(list2, "assistant-stream-" \o ToString(httpPending[i].at))]_vars

(***************************************************************************)
(* C12.                                                                    *)
(***************************************************************************)
\* the client has no step of its own left: no timer is armed and no HTTP call is in
\* flight, so only a backend message or the user changes its state
Quiescent == ~TimerArmed /\ httpPending = << >>

\* the step is the fallback timer firing and removing the placeholder (timeout with no
\* chunks)
TimeoutStep == TimerStep /\ allMessages' # allMessages

\* the step handles a protocol `error` event
ErrorStep ==
  \/ /\ IsSome(backend.turn) /\ ~The(backend.turn).erred
     /\ IsSome(backend'.turn) /\ The(backend'.turn).erred
  \/ /\ backend'.commands = backend.commands - 1
     /\ \E message \in ErrorTexts :
           Msgs(allMessages', The(activeChatId)) =
             Append(Msgs(allMessages, The(activeChatId)),
                    Msg(ToString(now' + 1), "assistant", "Error: " \o message, FALSE))

\* C12: after every failure path the busy flag is false as soon as the client has no
\* step of its own left, with no further backend message: after the fallback timer
\* removed the placeholder, while the socket is closed (whatever was in flight when it
\* closed), after a protocol `error` event and after the response of an HTTP call; the
\* guard of handleSendMessage then accepts a send.
C12_InputUsableAfterFailure ==
  [][/\ (TimeoutStep /\ Quiescent') => ~isTyping'
     /\ (~wsConnected' /\ Quiescent') => ~isTyping'
     /\ ErrorStep => ~isTyping'
     /\ HttpStep => ~isTyping']_vars

(***************************************************************************)
(* C13.                                                                    *)
(***************************************************************************)
\* the positions of the assistant Messages of a conversation that are streaming
Streaming(list) == {i \in 1..Len(list) : list[i].role = "assistant" /\ list[i].isStreaming}

\* C13: in every reachable state each conversation holds at most one assistant Message
\* with streaming true, and when a target id is pending no other Message is streaming.
C13_AtMostOneStreamingMessage ==
  \A chat \in DOMAIN allMessages :
     /\ Cardinality(Streaming(allMessages[chat])) <= 1
     /\ \A i \in Streaming(allMessages[chat]) :
           IsSome(streamingMessageId) => allMessages[chat][i].id = The(streamingMessageId)

(***************************************************************************)
(* C14.                                                                    *)
(***************************************************************************)
\* text b is text a with something appended (possibly nothing)
Extends(a, b) == Len(a) <= Len(b) /\ SubSeq(b, 1, Len(a)) = a

\* the error display string of some error text
IsErrorDisplay(content) == \E error \in ErrorTexts : content = "Error: " \o error

IsRevoke(inputValue) == parseChatCommand(inputValue).systemActionToSend = Some("revoke")

\* the inputs that are the revoke action, computed once
RevokeInputs == {inputValue \in Inputs : IsRevoke(inputValue)}

\* C15: when the user issues the revoke action on a connected socket, the step that
\* handles the input sends a system message with action "revoke" and ends with consent
\* not granted, before any system_response is handled.
C15_RevokeDropsConsentAtOnce ==
  [][\A inputValue \in RevokeInputs :
       (Typed(inputValue) /\ wsConnected) =>
          /\ wsOut' = Append(wsOut, SystemPayload("revoke"))
          /\ ~wsConsentGranted']_vars

(***************************************************************************)
(* C16.                                                                    *)
(***************************************************************************)
\* the step handles an error-carrying chunk event
ErrorChunkStep ==
  /\ IsSome(backend.turn) /\ The(backend.turn).phase = "open"
  /\ IsSome(backend'.turn) /\ The(backend'.turn).phase = "error"

\* C16: an error-carrying chunk event puts "Error: <text>" with streaming false into
\* the pending placeholder when there is one (same id, same position, every other
\* Message unchanged); otherwise it appends one new assistant Message with that
\* content and streaming false; afterward no target id is pending.
C16_ErrorChunkFinalizesWithError ==
  [][ErrorChunkStep =>
       LET list  == Msgs(allMessages, The(activeChatId))
           list2 == Msgs(allMessages', The(activeChatId))
       IN  /\ streamingMessageId' = None
           /\ \E error \in ErrorTexts :
                 IF IsSome(streamingMessageId) /\ HasTarget(list, The(streamingMessageId))
                 THEN /\ Len(list2) = Len(list)
                      /\ \A i \in 1..Len(list) :
                            IF list[i].id = The(streamingMessageId)
                            THEN list2[i] = [list[i] EXCEPT !.content = "Error: " \o error,
                                                            !.isStreaming = FALSE]
                            ELSE list2[i] = list[i]
                 ELSE /\ GainedOne(list, list2)
                      /\ list2[Len(list2)].role = "assistant"
                      /\ list2[Len(list2)].content = "Error: " \o error
                      /\ ~list2[Len(list2)].isStreaming]_vars

\* the placeholder of a turn received "Hi " and then an error chunk: it reads
\* "Error: overloaded", is not streaming, and nothing is pending
C16_Witness ==
  /\ IsSome(backend.turn)
  /\ The(backend.turn).phase = "error"
  /\ The(backend.turn).sent = "Hi "
  /\ The(backend.turn).into = Some(The(backend.turn).target)
  /\ streamingMessageId = None
  /\ \E i \in 1..Len(Msgs(allMessages, "h1")) :
        Msgs(allMessages, "h1")[i] =
          Msg(The(backend.turn).target, "assistant", "Error: overloaded", FALSE)

\* an error chunk arrived after the timer had removed the placeholder: the error was
\* appended as a new Message
C16_SeededWitness ==
  /\ IsSome(backend.turn)
  /\ The(backend.turn).phase = "error"
  /\ IsSome(The(backend.turn).into)
  /\ The(backend.turn).into # Some(The(backend.turn).target)
  /\ ~HasTarget(Msgs(allMessages, "h1"), The(backend.turn).target)
  /\ \E i \in 1..Len(Msgs(allMessages, "h1")) :
        Msgs(allMessages, "h1")[i] =
          Msg(The(The(backend.turn).into), "assistant", "Error: overloaded", FALSE)

(***************************************************************************)
(* C17.                                                                    *)
(***************************************************************************)
\* the step handles a protocol `error` event reported for the speak turn
SpeakErrorStep ==
  /\ IsSome(backend.turn) /\ ~The(backend.turn).erred
  /\ IsSome(backend'.turn) /\ The(backend'.turn).erred

\* C17: a protocol `error` event handled while a placeholder is pending puts
\* "Error: <text>" into that placeholder and clears its streaming flag (same number of
\* Messages, every other Message unchanged); when none is pending it appends one new
\* assistant Message with that content.
C17_ErrorEventReplacesPlaceholder ==
  [][SpeakErrorStep =>
       LET list  == Msgs(allMessages, The(activeChatId))
           list2 == Msgs(allMessages', The(activeChatId))
       IN  \E message \in ErrorTexts :
              IF IsSome(streamingMessageId) /\ HasTarget(list, The(streamingMessageId))
              THEN /\ Len(list2) = Len(list)
                   /\ \A i \in 1..Len(list) :
                         IF list[i].id = The(streamingMessageId)
                         THEN list2[i] = [list[i] EXCEPT !.content = "Error: " \o message,
                                                         !.isStreaming = FALSE]
                         ELSE list2[i] = list[i]
              ELSE /\ GainedOne(list, list2)
                   /\ list2[Len(list2)].role = "assistant"
                   /\ list2[Len(list2)].content = "Error: " \o message
                   /\ ~list2[Len(list2)].isStreaming]_vars

(***************************************************************************)
(* C18.                                                                    *)
(***************************************************************************)
\* C18: once a chunk event (with or without text, terminal or not, or carrying an
\* error) has been handled for the stream a timer was armed for, that timer firing
\* removes and alters no Message and leaves the pending target id as it is.
C18_TimerCancelledByChunk ==
  [][(TimerStep /\ observed.heard > 0) =>
       /\ allMessages' = allMessages
       /\ streamingMessageId' = streamingMessageId]_vars

(***************************************************************************)
(* C19.                                                                    *)
(***************************************************************************)
\* C19: a timer firing touches nothing but the placeholder it was armed for: the
\* conversation it was armed in either stays as it is or loses the Messages with the
\* timer's own id, every other conversation stays as it is, and when the pending
\* target id is not the timer's own, no Message and no pending id changes.
C19_TimerOnlyAffectsItsOwnPlaceholder ==
  [][TimerStep =>
       LET t    == The(streamingFallbackTimer)
           list == Msgs(allMessages, t.chat)
       IN  /\ DOMAIN allMessages' = DOMAIN allMessages
           /\ \A chat \in DOMAIN allMessages \ {t.chat} : allMessages'[chat] = allMessages[chat]
           /\ Msgs(allMessages', t.chat) \in {list, FilterOut(list, t.pendingId)}
           /\ streamingMessageId' \in {streamingMessageId, None}
           /\ streamingMessageId # Some(t.pendingId) =>
                 /\ allMessages' = allMessages
                 /\ streamingMessageId' = streamingMessageId]_vars

\* the timer of a turn fired while a stream started after it, under another id, was
\* pending with no text received yet: that stream's Message is still there, still
\* streaming and still pending, and so is the Message the timer was armed for
C19_Witness ==
  /\ IsSome(streamingFallbackTimer) /\ ~The(streamingFallbackTimer).armed
  /\ IsSome(observed.spared)
  /\ streamingMessageId = observed.spared
  /\ ~streamingHasReceivedChunk
  /\ HasTarget(Msgs(allMessages, "h1"), The(streamingFallbackTimer).pendingId)
  /\ \E i \in 1..Len(Msgs(allMessages, "h1")) :
        /\ Msgs(allMessages, "h1")[i].id = The(observed.spared)
        /\ Msgs(allMessages, "h1")[i].isStreaming

(***************************************************************************)
(* C20.                                                                    *)
(***************************************************************************)
\* the step handles the terminal chunk event of the turn (no error)
TerminalChunkStep ==
  /\ IsSome(backend.turn) /\ The(backend.turn).phase = "open"
  /\ IsSome(backend'.turn) /\ The(backend'.turn).phase = "done"
  /\ The(backend'.turn).chunks = The(backend.turn).chunks + 1

\* C20: when the terminal chunk of a stream is handled, one exchange is handed to the
\* memory store: the content of the last user Message of the conversation, and as
\* assistant text the content the stream's Message has after the event (every chunk
\* received, the terminal one included).
C20_StoredExchangeHasFinalContent ==
  [][TerminalChunkStep =>
       LET list2 == Msgs(allMessages', The(activeChatId))
       IN  /\ IsSome(LastUserMessage(list2))
           /\ epm' = Append(epm, ExchangeText(The(LastUserMessage(list2)).content,
                                              ContentOf(list2, The(The(backend'.turn).into))))]_vars

(***************************************************************************)
(* Titles of new sessions.                                                 *)
(***************************************************************************)
\* the user Messages of a conversation whose turn was dispatched to the backend
DispatchedTurns(list) ==
  {k \in 1..Len(list) : /\ list[k].role = "user"
                        /\ list[k].content \in AllInputs
                        /\ ~Classified[list[k].content].pureUi}

\* the title of conversation `chat` changes in this step
Retitled(chat) ==
  \E i \in 1..Len(chatHistory), j \in 1..Len(chatHistory') :
     /\ chatHistory[i].id = chat
     /\ chatHistory'[j].id = chat
     /\ chatHistory[i].title # chatHistory'[j].title

TitleOf(history, chat) ==
  LET i == CHOOSE i \in 1..Len(history) : history[i].id = chat IN history[i].title

\* C21: the title of a conversation is rewritten exactly once: a step changes it only
\* from "New Session", only to the truncated preview of the message of the first
\* dispatched turn of the conversation, and never on a later turn.
C21_TitleRewrittenExactlyOnce ==
  [][\A chat \in DOMAIN allMessages' :
        Retitled(chat) =>
          LET list  == Msgs(allMessages', chat)
              turns == DispatchedTurns(list)
          IN  /\ TitleOf(chatHistory, chat) = "New Session"
              /\ Cardinality(turns) = 1
              /\ \A k \in turns :
                    TitleOf(chatHistory', chat) =
                      TitlePreview(Classified[list[k].content].messageContent)]_vars

(***************************************************************************)
(* The proactive inbox.                                                    *)
(***************************************************************************)
\* this step is the handling of a proactive message
PushStep == observed'.pushes = observed.pushes + 1

\* the conversation a push handled in this step is appended to
PushTarget == IF IsSome(activeChatId) THEN The(activeChatId) ELSE The(activeChatId')

\* C22: a proactive message leaves a conversation active (the one that was, or a new
\* one when none was), appends exactly one finalized assistant Message with the pushed
\* content to it, and changes no existing Message of any conversation and nothing of
\* the streaming session (pending id, chunk flag, fallback timer).
C22_PushAppendsOneFinalizedMessage ==
  [][PushStep =>
       LET list  == Msgs(allMessages, PushTarget)
           list2 == Msgs(allMessages', PushTarget)
       IN  /\ IsSome(activeChatId')
           /\ IsSome(activeChatId) => activeChatId' = activeChatId
           /\ ~IsSome(activeChatId) => The(activeChatId') \notin DOMAIN allMessages
           /\ Len(list2) = Len(list) + 1
           /\ SubSeq(list2, 1, Len(list)) = list
           /\ list2[Len(list2)].role = "assistant"
           /\ ~list2[Len(list2)].isStreaming
           /\ list2[Len(list2)].content \in PushTexts
           /\ \A chat \in DOMAIN allMessages :
                 chat # PushTarget => allMessages'[chat] = allMessages[chat]
           /\ UNCHANGED << streamVars, streamingFallbackTimer >>]_vars

\* a push was handled while the placeholder of a turn was accumulating its stream: the
\* pushed Message follows a streaming Message that holds the first token
C22_Witness ==
  /\ IsSome(activeChatId)
  /\ IsSome(streamingMessageId)
  /\ TimerArmed
  /\ LET list == Msgs(allMessages, The(activeChatId))
     IN  \E i, j \in 1..Len(list) :
            /\ i < j
            /\ list[i].id = The(streamingMessageId)
            /\ list[i].isStreaming
            /\ list[i].content = Tokens[1]
            /\ list[j].content \in PushTexts

\* C23: a proactive message triggers a notification exactly when its reason is
\* "comfort" or it is the first proactive message of the session; a later one with
\* another reason triggers none.
C23_NotifiesOnComfortOrFirstPush ==
  [][PushStep =>
       /\ Len(notifications') \in {Len(notifications), Len(notifications) + 1}
       /\ Len(notifications') = Len(notifications) + 1
            <=> (observed'.reason = Some("comfort") \/ observed.pushes = 0)]_vars

\* C24: the text of a proactive message is handed to the speech output exactly when
\* voice output is enabled at the moment the message is handled, whether the user
\* toggled it before or after the socket handlers were registered.
C24_PushSpokenIffVoiceEnabled ==
  [][PushStep =>
       IF ui.voiceOutputEnabled
       THEN /\ Len(spoken') = Len(spoken) + 1
            /\ spoken'[Len(spoken')] \in PushTexts
       ELSE spoken' = spoken]_vars

(***************************************************************************)
(* The router.                                                             *)
(***************************************************************************)
\* the type of the payload this step dispatched, on the socket or over HTTP
DispatchedAs ==
  IF Len(wsOut') > Len(wsOut) THEN Some(wsOut'[Len(wsOut')].type)
  ELSE IF Len(httpOut') > Len(httpOut) THEN Some(httpOut'[Len(httpOut')].endpoint)
  ELSE None

\* the input starts with the command marker or contains a control verb, at any place
CommandLike ==
  [inputValue \in RouterInputs |->
     \/ StartsWith(Chars(inputValue), "/")
     \/ \E verb \in {"run", "execute", "schedule"} : Includes(MessageLower(inputValue), verb)]

\* C25: an input that is not a local toggle is dispatched as a command when it starts
\* with "/" or contains one of the control verbs "run", "execute", "schedule" at any
\* position, the first word included, and as a speak payload otherwise.
C25_ControlVerbMakesCommand ==
  [][\A inputValue \in RouterInputs :
       (Typed(inputValue) /\ ~Classified[inputValue].pureUi) =>
          DispatchedAs = Some(IF CommandLike[inputValue] THEN "command" ELSE "speak")]_vars

\* a recognized phrase with no backend command and no consent action
LocalToggle(inputValue) ==
  /\ Classified[inputValue].parsed.kind = "handled"
  /\ Classified[inputValue].parsed.commandToSend = None
  /\ Classified[inputValue].parsed.systemActionToSend = None

\* C26: a pure local UI toggle transmits nothing on the socket and issues no HTTP
\* request; it appends the user Message and one local assistant Message, leaves the
\* busy flag false, and leaves consent and the streaming session unchanged.
C26_LocalToggleStaysLocal ==
  [][\A inputValue \in RouterInputs :
       (Typed(inputValue) /\ LocalToggle(inputValue)) =>
          LET list  == Msgs(allMessages, The(activeChatId))
              list2 == Msgs(allMessages', The(activeChatId))
          IN  /\ wsOut' = wsOut
              /\ httpOut' = httpOut
              /\ httpPending' = httpPending
              /\ Len(list2) = Len(list) + 2
              /\ SubSeq(list2, 1, Len(list)) = list
              /\ list2[Len(list) + 1] = Msg(ToString(now'), "user", inputValue, FALSE)
              /\ list2[Len(list) + 2].role = "assistant"
              /\ list2[Len(list) + 2].content =
                   The(Classified[inputValue].parsed.localAssistantMessage)
              /\ ~list2[Len(list) + 2].isStreaming
              /\ ~isTyping'
              /\ UNCHANGED << consentVars, streamVars, streamingFallbackTimer >>]_vars

\* "voice off" was typed on a connected socket while the placeholder of an earlier turn
\* was pending with its timer armed: the toggle and its reply follow the placeholder
C26_Witness ==
  /\ wsConnected
  /\ IsSome(activeChatId)
  /\ IsSome(streamingMessageId)
  /\ TimerArmed
  /\ LET list == Msgs(allMessages, The(activeChatId))
     IN  \E i \in 1..Len(list) :
            /\ i + 2 <= Len(list)
            /\ list[i].id = The(streamingMessageId)
            /\ list[i + 1].role = "assistant"
            /\ list[i + 2] = Msg(ToString(now), "user", "voice off", FALSE)
            /\ list[Len(list)].content = "Voice output disabled."

(***************************************************************************)
(* Failures of the HTTP path.                                              *)
(***************************************************************************)
\* C27: when the HTTP request of a fallback or fast-path turn fails, exactly one
\* assistant Message "Backend Error: <detail>" is appended to the conversation of the
\* turn, nothing is requested or transmitted again, and the busy flag is false
\* afterward.
C27_HttpFailureShowsBackendError ==
  [][(HttpStep /\ IsSome(observed'.failure)) =>
       /\ \E i \in 1..Len(httpPending) :
             LET list  == Msgs(allMessages, httpPending[i].chat)
                 list2 == Msgs(allMessages', httpPending[i].chat)
             IN  /\ httpPending' = RemoveAt(httpPending, i)
                 /\ GainedOne(list, list2)
                 /\ list2[Len(list2)].role = "assistant"
                 /\ list2[Len(list2)].content = "Backend Error: " \o The(observed'.failure)
                 /\ ~list2[Len(list2)].isStreaming
                 /\ \A chat \in DOMAIN allMessages :
                       chat # httpPending[i].chat => allMessages'[chat] = allMessages[chat]
       /\ httpOut' = httpOut
       /\ wsOut' = wsOut
       /\ ~isTyping']_vars

\* the HTTP call of a turn whose send failed on a connected socket has failed: the
\* error follows the placeholder of the turn, and each transport was asked once
C27_Witness ==
  /\ observed.settled = Some("sendfail")
  /\ observed.failure = Some("Failed to fetch")
  /\ ~isTyping
  /\ Len(httpOut) = 1
  /\ httpPending = << >>
  /\ LET list == Msgs(allMessages, The(activeChatId))
     IN  /\ Len(list) >= 2
         /\ list[Len(list)].content = "Backend Error: Failed to fetch"
         /\ list[Len(list) - 1].isStreaming

(***************************************************************************)
(* Placeholders on the socket path.                                        *)
(***************************************************************************)
\* C28: for a turn dispatched while the socket is connected, the empty streaming
\* placeholder is appended, made the pending target, and the fallback timer armed for
\* it, exactly when the payload is speak-typed; a command-typed payload appends no
\* placeholder and leaves the pending target and the timer as they were.
C28_PlaceholderIffSpeakOnSocket ==
  [][\A inputValue \in RouterInputs :
       (Typed(inputValue) /\ wsConnected /\ ~Classified[inputValue].pureUi) =>
          LET chat      == The(activeChatId)
              list      == Msgs(allMessages, chat)
              list2     == Msgs(allMessages', chat)
              pendingId == "assistant-stream-" \o ToString(now')
          IN  IF Classified[inputValue].isCommand
              THEN /\ list2 = Append(list, Msg(ToString(now'), "user", inputValue, FALSE))
                   /\ ~HasTarget(list2, pendingId)
                   /\ UNCHANGED << streamVars, streamingFallbackTimer >>
              ELSE /\ list2 = list \o << Msg(ToString(now'), "user", inputValue, FALSE),
                                         Msg(pendingId, "assistant", "", TRUE) >>
                   /\ streamingMessageId' = Some(pendingId)
                   /\ ~streamingHasReceivedChunk'
                   /\ streamingFallbackTimer' = ArmedTimer(pendingId, chat)]_vars

\* "/deploy" was transmitted as a command on the connected socket and awaits its
\* answer: the conversation ends with the user Message, nothing is pending, no timer
C28_Witness ==
  /\ wsConnected
  /\ backend.commands > 0
  /\ Len(wsOut) > 0
  /\ wsOut[Len(wsOut)] = CommandPayload("/deploy")
  /\ streamingMessageId = None
  /\ ~TimerArmed
  /\ isTyping
  /\ LET list == Msgs(allMessages, The(activeChatId))
     IN  list[Len(list)] = Msg(ToString(now), "user", "/deploy", FALSE)

(***************************************************************************)
(* Disconnection during a stream.                                          *)
(***************************************************************************)
\* the step is the socket closing
DisconnectStep == wsConnected /\ ~wsConnected'

\* the step is the socket opening
ConnectStep == ~wsConnected /\ wsConnected'

\* C29: when the socket closes, the handler leaves every Message (the placeholder in
\* flight included), the pending target and the timer as they are, transmits nothing,
\* empties the pending command and resets consent; a later connection transmits
\* nothing either, and nothing is ever transmitted or requested but by a send of the
\* user.
C29_DisconnectIsHardCutover ==
  [][/\ DisconnectStep =>
          /\ allMessages' = allMessages
          /\ UNCHANGED << streamVars, streamingFallbackTimer, wsOut, httpOut, httpPending >>
          /\ pendingWsCommand' = None
          /\ ~wsConsentGranted'
     /\ ConnectStep =>
          /\ allMessages' = allMessages
          /\ UNCHANGED << streamVars, streamingFallbackTimer, wsOut, httpOut, httpPending >>
     /\ (wsOut' # wsOut \/ httpOut' # httpOut) => \E inputValue \in Inputs : Typed(inputValue)
    ]_vars

\* the socket closed while consent was granted and the placeholder of a turn held the
\* first token, and has opened again: the placeholder still streams with that token,
\* the turn is answered no more, consent is gone
C29_Witness ==
  /\ wsConnected
  /\ observed.hadConsent
  /\ ~wsConsentGranted
  /\ IsSome(backend.turn)
  /\ The(backend.turn).phase = "dropped"
  /\ streamingMessageId = Some(The(backend.turn).target)
  /\ LET list == Msgs(allMessages, The(backend.turn).chat)
     IN  \E i \in 1..Len(list) :
            /\ list[i].id = The(backend.turn).target
            /\ list[i].isStreaming
            /\ list[i].content = Tokens[1]

(***************************************************************************)
(* A send while a stream is accumulating.                                  *)
(***************************************************************************)
\* the placeholder of a turn is pending, still streaming, and has received a chunk
Accumulating ==
  /\ IsSome(activeChatId)
  /\ IsSome(streamingMessageId)
  /\ streamingHasReceivedChunk
  /\ \E i \in 1..Len(Msgs(allMessages, The(activeChatId))) :
        /\ Msgs(allMessages, The(activeChatId))[i].id = The(streamingMessageId)
        /\ Msgs(allMessages, The(activeChatId))[i].isStreaming

\* C30 as stated: while the stream of an earlier turn is still accumulating, a message
\* the user submits is accepted by the send.
C30_SendProceedsWhileAccumulating == Accumulating => Accepts(FALSE)

\* the Messages of a conversation that are still streaming
StreamingIds(list) == {list[i].id : i \in {k \in 1..Len(list) : list[k].isStreaming}}

\* C30, amended: a submitted message is handled only while the busy flag is clear; when
\* a chat message is then sent on the connected socket while the placeholder of an
\* earlier turn is still pending and streaming, a second placeholder is appended and the
\* earlier one is left as it is, but only the new one is tracked: the pending target
\* and the fallback timer are overwritten with the new id.
C30_SecondPlaceholderReplacesTracking ==
  [][\A inputValue \in Inputs :
       Typed(inputValue) =>
         /\ ~isTyping
         /\ (/\ wsConnected
             /\ ~Classified[inputValue].isCommand
             /\ ~Classified[inputValue].pureUi
             /\ IsSome(streamingMessageId)
             /\ The(streamingMessageId) \in StreamingIds(Msgs(allMessages, The(activeChatId))))
            => LET list      == Msgs(allMessages, The(activeChatId))
                   list2     == Msgs(allMessages', The(activeChatId))
                   pendingId == "assistant-stream-" \o ToString(now')
               IN  /\ SubSeq(list2, 1, Len(list)) = list
                   /\ list2[Len(list2)] = Msg(pendingId, "assistant", "", TRUE)
                   /\ pendingId # The(streamingMessageId)
                   /\ {The(streamingMessageId), pendingId} \subseteq StreamingIds(list2)
                   /\ streamingMessageId' = Some(pendingId)
                   /\ ~streamingHasReceivedChunk'
                   /\ streamingFallbackTimer' = ArmedTimer(pendingId, The(activeChatId))]_vars

\* a second chat message was sent while the placeholder of the first, holding the first
\* token, was still streaming: both placeholders stream, the second is the pending one
C30_Witness ==
  /\ IsSome(activeChatId)
  /\ isTyping
  /\ LET list == Msgs(allMessages, The(activeChatId))
     IN  \E i, j \in 1..Len(list) :
            /\ i < j
            /\ j = Len(list)
            /\ list[i].isStreaming /\ list[i].role = "assistant" /\ list[i].content = Tokens[1]
            /\ list[j].isStreaming /\ list[j].role = "assistant" /\ list[j].content = ""
            /\ streamingMessageId = Some(list[j].id)
            /\ streamingFallbackTimer = ArmedTimer(list[j].id, The(activeChatId))

(***************************************************************************)
(* Case of the letters.                                                    *)
(***************************************************************************)
\* the transport this step used: the socket, HTTP, or none
TransportUsed ==
  IF Len(wsOut') > Len(wsOut) THEN "socket"
  ELSE IF Len(httpOut') > Len(httpOut) THEN "http"
  ELSE "none"

\* how the router treats an input: local or not, with or without a consent action,
\* fast path or not, command or speak, consent gate or not
Route(inputValue) ==
  [local    |-> Classified[inputValue].pureUi,
   action   |-> Classified[inputValue].parsed.systemActionToSend,
   fast     |-> Classified[inputValue].isFastPath,
   command  |-> Classified[inputValue].isCommand,
   gated    |-> Classified[inputValue].needsConsent]

\* the payload type and the transports the router may use for a route: a local input
\* transmits its consent action on a connected socket and nothing otherwise; a fast
\* path command goes over HTTP; the rest goes on a connected socket, or over HTTP when
\* the socket is closed or refuses the message
RouteType(r, connected) ==
  IF r.local THEN (IF IsSome(r.action) /\ connected THEN Some("system") ELSE None)
  ELSE Some(IF r.command THEN "command" ELSE "speak")

RouteTransports(r, connected) ==
  IF r.local THEN (IF IsSome(r.action) /\ connected THEN {"socket"} ELSE {"none"})
  ELSE IF r.fast \/ ~connected THEN {"http"}
  ELSE {"socket", "http"}

\* C31: two inputs that differ only in the case of their letters are routed
\* identically: an input typed in another case is local exactly when its lower-case
\* twin is, and otherwise leaves on the transport, with the payload type and the
\* consent handling, of the twin.
C31_RoutingIgnoresCase ==
  [][\A pair \in CasePairs :
       (Typed(pair[2]) /\ ToLowerCase(pair[2]) = Chars(pair[1])) =>
          /\ Route(pair[2]) = Route(pair[1])
          /\ DispatchedAs = RouteType(Route(pair[1]), wsConnected)
          /\ TransportUsed \in RouteTransports(Route(pair[1]), wsConnected)
          /\ UNCHANGED consentVars]_vars

\* "EXEC ls" was typed on a connected socket with consent granted and was requested
\* over HTTP as a command, as "exec ls" is
C31_Witness ==
  /\ wsConnected /\ wsConsentGranted /\ observed.online
  /\ Len(httpOut) > 0
  /\ httpOut[Len(httpOut)] = HttpRequest("EXEC ls", TRUE)
  /\ LET list == Msgs(allMessages, The(activeChatId))
     IN  list[Len(list)] = Msg(ToString(now), "user", "EXEC ls", FALSE)

(***************************************************************************)
(* Where consent comes from.                                               *)
(***************************************************************************)
\* the inputs the parser turns into the consent action "grant"
GrantInputs ==
  {inputValue \in Inputs : Classified[inputValue].parsed.systemActionToSend = Some("grant")}

\* C32: consent is granted in a state only if the last system_response of the current
\* connection that carried a boolean carried true; typing "system grant" shows its
\* local reply but does not set consent, and transmits nothing while the socket is
\* closed.
C32_ConsentOnlyFromSystemResponse ==
  [][/\ wsConsentGranted' => observed'.granted
     /\ \A inputValue \in GrantInputs :
           Typed(inputValue) =>
             LET list2 == Msgs(allMessages', The(activeChatId))
             IN  /\ wsConsentGranted' = wsConsentGranted
                 /\ list2[Len(list2)].content = "WebSocket consent granted for this connection."
                 /\ ~wsConnected => (wsOut' = wsOut /\ httpOut' = httpOut)]_vars

\* "system grant" was typed twice, first on a closed socket: the reply was shown both
\* times, the action was transmitted once, and consent came with the system_response
C32_Witness ==
  /\ wsConnected
  /\ wsConsentGranted
  /\ wsOut = << SystemPayload("grant") >>
  /\ LET list == Msgs(allMessages, The(activeChatId))
     IN  /\ Len(list) = 5
         /\ list[3].content = "WebSocket consent granted for this connection."
         /\ list[4].content = "system grant"
         /\ list[5].content = "WebSocket consent granted for this connection."

(***************************************************************************)
(* C33: the scheduled tasks and the streaming subsystem.                   *)
(***************************************************************************)
\* a socket event handler runs, the connectivity changes or the fallback timer fires
StreamingStep ==
  \/ Events
  \/ \E content \in PushTexts, reason \in PushReasons : ProactiveEvent(content, reason)

\* the tasks of a list beside those with the given id, in order
RECURSIVE OtherTasks(_, _)
OtherTasks(list, id) ==
  IF list = << >> THEN << >>
  ELSE (IF Head(list).id = id THEN << >> ELSE << Head(list) >>) \o OtherTasks(Tail(list), id)

AddedTask ==
  /\ Len(scheduledTasks') = Len(scheduledTasks) + 1
  /\ SubSeq(scheduledTasks', 1, Len(scheduledTasks)) = scheduledTasks
  /\ scheduledTasks'[Len(scheduledTasks')].status = "PENDING"

UpdatedTask(id) ==
  /\ Len(scheduledTasks') = Len(scheduledTasks)
  /\ \A i \in DOMAIN scheduledTasks :
       /\ scheduledTasks[i].id # id => scheduledTasks'[i] = scheduledTasks[i]
       /\ scheduledTasks[i].id = id => scheduledTasks'[i].id = id

DeletedTask(id) ==
  /\ scheduledTasks' = OtherTasks(scheduledTasks, id)
  /\ \E i \in DOMAIN scheduledTasks : scheduledTasks[i].id = id

\* C33: no socket event handler (system_response, speak_response, speak_response_chunk,
\* command_response, error, proactive_message), connectivity change or firing of the
\* fallback timer adds, changes or removes a Scheduled Task; the task list changes only
\* through the add, update and delete operations, where add appends a task of status
\* PENDING and update and delete touch only the task with the given id.
C33_TasksChangeOnlyByTaskOperations ==
  [][/\ StreamingStep => scheduledTasks' = scheduledTasks
     /\ \A inputValue \in TaskInputs : TaskSend(inputValue) => scheduledTasks' = scheduledTasks
     /\ scheduledTasks' # scheduledTasks =>
          \/ AddedTask
          \/ \E id \in TaskIds : UpdatedTask(id) \/ DeletedTask(id)]_vars

\* a task was added, one was updated and one deleted while a chat turn was streamed
C33_Witness ==
  /\ Len(scheduledTasks) = 2
  /\ scheduledTasks[1].id = "task-1" /\ scheduledTasks[1].status = "RUNNING"
  /\ scheduledTasks[2].id # "task-2" /\ scheduledTasks[2].status = "PENDING"
  /\ streamingHasReceivedChunk
  /\ observed.pushes > 0

(***************************************************************************)
(* C34: a change of the active conversation.                               *)
(***************************************************************************)
SwitchStep == activeChatId' # activeChatId

Rewritten(inputValue) ==
  LET commandToSend == parseChatCommand(inputValue).commandToSend
  IN  IF IsSome(commandToSend) THEN The(commandToSend) ELSE inputValue

\* the texts of the requests a step transmits, on the socket and over HTTP
TransmittedTexts ==
  {wsOut'[i].text : i \in {j \in DOMAIN wsOut' : j > Len(wsOut) /\ wsOut'[j].type # "system"}}
    \cup {httpOut'[i].text : i \in {j \in DOMAIN httpOut' : j > Len(httpOut)}}

\* the texts of the requests transmitted so far
RequestTexts ==
  {wsOut[i].text : i \in {j \in DOMAIN wsOut : wsOut[j].type # "system"}}
    \cup {httpOut[i].text : i \in DOMAIN httpOut}

\* C35: every accepted send appends exactly one user Message, whose content is the input
\* as typed, also when the router rewrites the input to a backend command ("show dreams"
\* is transmitted as "brain dreams list"); what is transmitted is the rewritten text, and
\* a title that replaces "New Session" is the preview of a transmitted text.
C35_UserMessageRawTransmittedRewritten ==
  [][/\ \A inputValue \in SwitchInputs :
          SwitchSend(inputValue) =>
            LET chat   == The(activeChatId)
                before == Msgs(allMessages, chat)
                after  == Msgs(allMessages', chat)
            IN  /\ Len(after) > Len(before)
                /\ SubSeq(after, 1, Len(before)) = before
                /\ after[Len(before) + 1].role = "user"
                /\ after[Len(before) + 1].content = inputValue
                /\ \A i \in (Len(before) + 2)..Len(after) : after[i].role # "user"
                /\ TransmittedTexts \subseteq {Rewritten(inputValue)}
                /\ \A i \in DOMAIN chatHistory :
                     chatHistory'[i].title # chatHistory[i].title =>
                       chatHistory'[i].title = TitlePreview(Rewritten(inputValue))
     /\ \A i \in DOMAIN chatHistory :
          (i \in DOMAIN chatHistory' /\ chatHistory'[i].id = chatHistory[i].id
             /\ chatHistory'[i].title # chatHistory[i].title) =>
            \E text \in RequestTexts \cup TransmittedTexts :
               chatHistory'[i].title = TitlePreview(text)]_vars

\* "show dreams" was typed in a new session: the conversation shows it as typed, the
\* request carried "brain dreams list" and the title is the preview of that
C35_Witness ==
  /\ IsSome(activeChatId)
  /\ \E i \in DOMAIN Msgs(allMessages, The(activeChatId)) :
       /\ Msgs(allMessages, The(activeChatId))[i].role = "user"
       /\ Msgs(allMessages, The(activeChatId))[i].content = "show dreams"
  /\ "brain dreams list" \in RequestTexts
  /\ "show dreams" \notin RequestTexts
  /\ \E i \in DOMAIN chatHistory :
       chatHistory[i].id = The(activeChatId) /\ chatHistory[i].title = "brain dreams list"

(***************************************************************************)
(* C36: deleting a conversation.                                           *)
(***************************************************************************)
\* C36: deleting a conversation removes its history entry and its whole message list and
\* leaves the messages of every other conversation as they were; when the conversation
\* deleted was the active one, a new session holding one assistant Message is created and
\* is the active one afterwards, so that an active conversation exists after every delete.
C36_DeleteRemovesOneConversation ==
  [][\A id \in ChatIds :
       DeleteChat(id) =>
         /\ \A i \in DOMAIN chatHistory' : chatHistory'[i].id # id
         /\ id \notin DOMAIN allMessages'
         /\ \A c \in (DOMAIN allMessages) \ {id} :
              c \in DOMAIN allMessages' /\ allMessages'[c] = allMessages[c]
         /\ \A i \in DOMAIN chatHistory :
              chatHistory[i].id # id => \E j \in DOMAIN chatHistory' : chatHistory'[j] = chatHistory[i]
         /\ IsSome(activeChatId')
         /\ \E i \in DOMAIN chatHistory' : chatHistory'[i].id = The(activeChatId')
         /\ IF activeChatId = Some(id)
            THEN /\ The(activeChatId') \notin ChatIds
                 /\ Len(Msgs(allMessages', The(activeChatId'))) = 1
                 /\ Msgs(allMessages', The(activeChatId'))[1].role = "assistant"
                 /\ DOMAIN allMessages' = ((DOMAIN allMessages) \ {id}) \cup {The(activeChatId')}
            ELSE /\ activeChatId' = activeChatId
                 /\ DOMAIN allMessages' = (DOMAIN allMessages) \ {id}]_vars

\* the active conversation was deleted while another one held a turn: that one is kept
\* whole and a new session with its greeting is the active one
C36_Witness ==
  /\ \A i \in DOMAIN chatHistory : chatHistory[i].id # "h2"
  /\ Len(Msgs(allMessages, "h1")) >= 2
  /\ IsSome(activeChatId)
  /\ The(activeChatId) \notin {"h1", "h2"}
  /\ Len(Msgs(allMessages, The(activeChatId))) = 1
  /\ chatHistory[1] = [id |-> The(activeChatId), title |-> "New Session"]
  /\ observed.switches = 2

(***************************************************************************)
(* C37: the settings dialog.                                               *)
(***************************************************************************)
\* the storage after a save of the working values, key by key
SavedStorage ==
  [k \in SettingsKeys |->
     IF k = "phx_env_config" THEN Some(JSONstringify(envConfig))
     ELSE IF k = "phx_custom_logo" THEN customLogo
     ELSE IF k = "phx_custom_favicon" THEN customFavicon
     ELSE IF k = "phx_custom_chat_logo" THEN customChatLogo
     ELSE customUserLogo]

\* C37: after the settings were opened and any sequence of previews applied, a cancel
\* restores the env config and the four branding values to what they were on opening
\* and writes nothing to the storage, as do the opening and the previews; a save writes
\* the working values to the storage, keeps them and discards the snapshot.
C37_CancelRestoresSaveWrites ==
  [][/\ CancelSettings =>
          /\ IsSome(observed.opened)
          /\ envConfig' = The(observed.opened).envConfig
          /\ customLogo' = The(observed.opened).branding.logo
          /\ customFavicon' = The(observed.opened).branding.favicon
          /\ customChatLogo' = The(observed.opened).branding.chatLogo
          /\ customUserLogo' = The(observed.opened).branding.userLogo
          /\ localStorage' = localStorage
          /\ snapshotEnvConfig' = None /\ snapshotBranding' = None
          /\ ~isSettingsOpen'
     /\ (localStorage' # localStorage) => SaveSettings
     /\ SaveSettings =>
          /\ localStorage' = SavedStorage
          /\ UNCHANGED << envConfig, brandingVars >>
          /\ snapshotEnvConfig' = None /\ snapshotBranding' = None
          /\ ~isSettingsOpen']_vars

\* the dialog was cancelled after previews over values saved before: the working values
\* are the saved ones again, which are not those of the first launch
C37_Witness ==
  /\ ~isSettingsOpen
  /\ IsSome(observed.opened)
  /\ envConfig = The(observed.opened).envConfig
  /\ envConfig # DEFAULT_ENV_CONFIG
  /\ customLogo # None /\ customUserLogo = None
  /\ localStorage = SavedStorage
  /\ snapshotEnvConfig = None

(***************************************************************************)
(* C38: the mode toggle.                                                   *)
(***************************************************************************)
\* C38: the toggle yields Professional or Personal only: Personal from Professional,
\* Professional from Personal and from Counselor; a step that enters Counselor is a step
\* of the direct setter; and two toggles from Professional or from Personal give the
\* mode they started from.
C38_ToggleIsProfessionalPersonal ==
  [][/\ ToggleMode =>
          /\ modeAtom' \in {"Professional", "Personal"}
          /\ modeAtom = "Professional" => modeAtom' = "Personal"
          /\ modeAtom \in {"Personal", "Counselor"} => modeAtom' = "Professional"
     /\ (modeAtom # "Counselor" /\ modeAtom' = "Counselor") =>
          /\ SetMode("Counselor")
          /\ ~ToggleMode
     /\ modeAtom \in {"Professional", "Personal"} => Toggled(Toggled(modeAtom)) = modeAtom
     /\ Toggled(Toggled("Counselor")) = "Personal"]_vars

\* the toggle was used in Counselor, which the setter had entered, and left Professional
C38_Witness ==
  /\ observed.toggled = Some([from |-> "Counselor", to |-> "Professional"])
  /\ modeAtom = "Professional"

(***************************************************************************)
(* C39: detectNvcBreaches.                                                 *)
(***************************************************************************)
\* the needles of the table with their kinds, in the order of the table
NvcTable ==
  << [kind |-> "absolute", needle |-> "always"], [kind |-> "absolute", needle |-> "never"],
     [kind |-> "judgment", needle |-> "wrong"], [kind |-> "judgment", needle |-> "bad"],
     [kind |-> "judgment", needle |-> "ridiculous"],
     [kind |-> "judgment", needle |-> "selfish"], [kind |-> "judgment", needle |-> "lazy"],
     [kind |-> "judgment", needle |-> "crazy"], [kind |-> "judgment", needle |-> "stupid"],
     [kind |-> "directive", needle |-> "you should"],
     [kind |-> "directive", needle |-> "you need to"],
     [kind |-> "directive", needle |-> "you have to"],
     [kind |-> "blame", needle |-> "you make me feel"],
     [kind |-> "blame", needle |-> "because you"], [kind |-> "blame", needle |-> "your fault"],
     [kind |-> "you_statement", needle |-> "you are"] >>

\* the places of the table whose needle occurs in the trimmed, lower-cased text
Occurring ==
  [text \in Drafts |->
     {n \in DOMAIN NvcTable : Includes(ToLowerCase(Trim(text)), NvcTable[n].needle)}]

\* the list the table gives for a text: its occurring entries, in the order of the table
Expected(text) ==
  [k \in 1..Cardinality(Occurring[text]) |-> NvcTable[Nth(Occurring[text], k)]]

\* what the claim says of the list returned for a text
AsTheTableGives(text) ==
  LET out == LocalBreaches[text]
  IN  /\ out = Expected(text)
      /\ \A i, j \in DOMAIN out :
           (out[i].kind = out[j].kind /\ out[i].needle = out[j].needle) => i = j
      /\ \A i \in DOMAIN out : Includes(ToLowerCase(Trim(text)), out[i].needle)
      /\ Trim(text) = "" => out = << >>

\* that, for every script
Scanned == [text \in Drafts |-> AsTheTableGives(text)]

\* C39: detectNvcBreaches returns, in the order of the table, exactly one breach for each
\* needle of the table that occurs in the trimmed, lower-cased input: no two breaches
\* returned share kind and needle, every needle returned occurs in the input, and an
\* empty or blank input returns the empty list.
C39_BreachesAreTheOccurringNeedles == Scanned[draft]

\* the script holds four needles of three kinds, in capitals and between blanks, and the
\* list shown is those four in the order of the table
C39_Witness ==
  /\ draft = " You ALWAYS do this because you are lazy "
  /\ LocalBreaches[draft] =
       << [kind |-> "absolute", needle |-> "always"], [kind |-> "judgment", needle |-> "lazy"],
          [kind |-> "blame", needle |-> "because you"],
          [kind |-> "you_statement", needle |-> "you are"] >>
  /\ IsSome(ghostRequest)

(***************************************************************************)
(* C40: the regulatory brake of the relational ghost.                      *)
(***************************************************************************)
\* a step that calls brake.startBrake
BrakeStarted == brake.started' # brake.started

\* 60 + 3 * (risk - 85) seconds, kept within 60 and 150
Clamped(risk_score) ==
  LET seconds == 60 + 3 * (risk_score - 85)
  IN  IF seconds < 60 THEN 60 ELSE IF seconds > 150 THEN 150 ELSE seconds

====
